---------------------------- MODULE Spec2Model ----------------------------
(***************************************************************************)
(* address-propensity: the CSV ingestion pipelines (property_loader and    *)
(* propensity_loader), the value objects their translators build, and the  *)
(* two repository tables they read and append to.                          *)
(*                                                                         *)
(* Text is a sequence of characters; a character is a one-element string   *)
(* token ("U+0663" stands for ARABIC-INDIC DIGIT THREE, a two-byte UTF-8   *)
(* character of Unicode class Nd).                                         *)
(***************************************************************************)
EXTENDS Naturals, Integers, Sequences, FiniteSets, TLC

(***************************************************************************)
(* Characters and the regex classes the code uses.                         *)
(***************************************************************************)
AsciiDigits == {"0", "1", "2", "3", "4", "5", "6", "7", "8", "9"}

UpperLetters ==
    <<"A", "B", "C", "D", "E", "F", "G", "H", "I", "J", "K", "L", "M",
      "N", "O", "P", "Q", "R", "S", "T", "U", "V", "W", "X", "Y", "Z">>

LowerLetters ==
    <<"a", "b", "c", "d", "e", "f", "g", "h", "i", "j", "k", "l", "m",
      "n", "o", "p", "q", "r", "s", "t", "u", "v", "w", "x", "y", "z">>

Range(s) == {s[i] : i \in DOMAIN s}

\* regex `\d`: Unicode-aware in the regex crate, so any Nd character.
IsDigit(c) == c \in AsciiDigits \cup {"U+0663"}

\* regex `\w`
IsWord(c) == IsDigit(c) \/ c \in Range(UpperLetters) \cup Range(LowerLetters) \cup {"_"}

\* regex `\s`
IsSpace(c) == c \in {" ", "\t"}

\* char::len_utf8
Utf8Len(c) == IF c = "U+0663" THEN 2 ELSE 1

\* str::len: the length in bytes
RECURSIVE ByteLen(_)
ByteLen(s) == IF s = <<>> THEN 0 ELSE Utf8Len(Head(s)) + ByteLen(Tail(s))

\* case folding of (?i) matching
ToLower(c) ==
    IF \E i \in 1..26 : UpperLetters[i] = c
    THEN LowerLetters[CHOOSE i \in 1..26 : UpperLetters[i] = c]
    ELSE c

(***************************************************************************)
(* core::domain::AssessorParcelNumber                                      *)
(***************************************************************************)
APN_LENGTH == 14

\* RE_NUMERIC_APN = \d[\d-]*\d, unanchored (Regex::is_match)
RE_NUMERIC_APN_is_match(apn) ==
    \E i \in 1..Len(apn) : \E j \in (i + 1)..Len(apn) :
        /\ IsDigit(apn[i])
        /\ IsDigit(apn[j])
        /\ \A k \in (i + 1)..(j - 1) : IsDigit(apn[k]) \/ apn[k] = "-"

\* apn.replace(&['-'][..], "")
RemoveHyphens(apn) == SelectSeq(apn, LAMBDA c : c # "-")

\* format!("{:0>14}", reduced_apn): pads to a width counted in characters
PadZeros(s) ==
    IF Len(s) >= APN_LENGTH THEN s
    ELSE [i \in 1..(APN_LENGTH - Len(s)) |-> "0"] \o s

check_apn(apn) ==
    IF ~RE_NUMERIC_APN_is_match(apn)
    THEN [ok |-> FALSE, value |-> <<>>, error |-> "format"]
    ELSE LET reduced_apn == RemoveHyphens(apn) IN
         IF APN_LENGTH < ByteLen(reduced_apn)
         THEN [ok |-> FALSE, value |-> <<>>, error |-> "length"]
         ELSE IF ByteLen(reduced_apn) < APN_LENGTH
              THEN [ok |-> TRUE, value |-> PadZeros(reduced_apn), error |-> ""]
              ELSE [ok |-> TRUE, value |-> reduced_apn, error |-> ""]

AssessorParcelNumber_new(apn) == check_apn(apn)

(***************************************************************************)
(* core::domain::address::ZipOrPostalCode                                  *)
(***************************************************************************)
\* RE_ZIP_CODE = ^\d{5}$
RE_ZIP_CODE_is_match(code) == Len(code) = 5 /\ \A i \in 1..5 : IsDigit(code[i])

ZipOrPostalCode_new(zip_or_postal_code) ==
    [ok |-> RE_ZIP_CODE_is_match(zip_or_postal_code), code |-> zip_or_postal_code]

(***************************************************************************)
(* core::domain::propensity::PropensityScore                               *)
(***************************************************************************)
\* #[validate(range(min = 0))] on a u16
PropensityScore_validate(score) == score >= 0

PropensityScore_new(propensity_score) ==
    [ok |-> PropensityScore_validate(propensity_score), score |-> propensity_score]

(***************************************************************************)
(* core::domain::LandUseType: classification by ordered regex sets.        *)
(* A pattern is a sequence of tokens: a literal character, "WS*" for \s*,  *)
(* and "c?" for an optional character c.                                   *)
(***************************************************************************)
RE_CONDOMINIUM ==
    {
      \* condominium\s*unit
      <<"c", "o", "n", "d", "o", "m", "i", "n", "i", "u", "m", "WS*", "u", "n", "i", "t">>
    }

RE_DUPLEX ==
    {
      \* duplex
      <<"d", "u", "p", "l", "e", "x">>
    }

RE_MOBILE_OR_MANUFACTURED ==
    {
      \* mobile\s*home
      <<"m", "o", "b", "i", "l", "e", "WS*", "h", "o", "m", "e">>,
      \* manufactured\s*home
      <<"m", "a", "n", "u", "f", "a", "c", "t", "u", "r", "e", "d", "WS*", "h", "o", "m", "e">>,
      \* mobile\s*or\s*manufactured\s*home
      <<"m", "o", "b", "i", "l", "e", "WS*", "o", "r", "WS*", "m", "a", "n", "u", "f", "a", "c", "t", "u", "r", "e", "d", "WS*", "h", "o", "m", "e">>,
      \* manufactured\s*or\s*mobile\s*home
      <<"m", "a", "n", "u", "f", "a", "c", "t", "u", "r", "e", "d", "WS*", "o", "r", "WS*", "m", "o", "b", "i", "l", "e", "WS*", "h", "o", "m", "e">>
    }

RE_MULTI_FAMILY ==
    {
      \* multi\s*-?\s*family\s*dwellings?
      <<"m", "u", "l", "t", "i", "WS*", "-?", "WS*", "f", "a", "m", "i", "l", "y", "WS*", "d", "w", "e", "l", "l", "i", "n", "g", "s?">>,
      \* multi\s*-?\s*family\s*residential
      <<"m", "u", "l", "t", "i", "WS*", "-?", "WS*", "f", "a", "m", "i", "l", "y", "WS*", "r", "e", "s", "i", "d", "e", "n", "t", "i", "a", "l">>,
      \* multi\s*residential
      <<"m", "u", "l", "t", "i", "WS*", "r", "e", "s", "i", "d", "e", "n", "t", "i", "a", "l">>
    }

RE_PLANNED ==
    {
      \* planned\s*unit\s*development
      <<"p", "l", "a", "n", "n", "e", "d", "WS*", "u", "n", "i", "t", "WS*", "d", "e", "v", "e", "l", "o", "p", "m", "e", "n", "t">>,
      \* planned\s*development
      <<"p", "l", "a", "n", "n", "e", "d", "WS*", "d", "e", "v", "e", "l", "o", "p", "m", "e", "n", "t">>
    }

RE_QUADRUPLEX ==
    {
      \* quadruplex
      <<"q", "u", "a", "d", "r", "u", "p", "l", "e", "x">>
    }

RE_RURAL_OR_AGRICULTURAL ==
    {
      \* rural\s*or\s*agricultural\s*residence
      <<"r", "u", "r", "a", "l", "WS*", "o", "r", "WS*", "a", "g", "r", "i", "c", "u", "l", "t", "u", "r", "a", "l", "WS*", "r", "e", "s", "i", "d", "e", "n", "c", "e">>,
      \* rural\s*residence
      <<"r", "u", "r", "a", "l", "WS*", "r", "e", "s", "i", "d", "e", "n", "c", "e">>,
      \* agricultural\s*residence
      <<"a", "g", "r", "i", "c", "u", "l", "t", "u", "r", "a", "l", "WS*", "r", "e", "s", "i", "d", "e", "n", "c", "e">>
    }

RE_SINGLE_FAMILY ==
    {
      \* single\s*family\s*residential
      <<"s", "i", "n", "g", "l", "e", "WS*", "f", "a", "m", "i", "l", "y", "WS*", "r", "e", "s", "i", "d", "e", "n", "t", "i", "a", "l">>,
      \* single\s*residential
      <<"s", "i", "n", "g", "l", "e", "WS*", "r", "e", "s", "i", "d", "e", "n", "t", "i", "a", "l">>
    }

RE_TOWNHOUSE ==
    {
      \* townhouse
      <<"t", "o", "w", "n", "h", "o", "u", "s", "e">>
    }

RE_TRIPLEX ==
    {
      \* triplex
      <<"t", "r", "i", "p", "l", "e", "x">>
    }

RE_VACATION ==
    {
      \* vacation\s*residence
      <<"v", "a", "c", "a", "t", "i", "o", "n", "WS*", "r", "e", "s", "i", "d", "e", "n", "c", "e">>
    }

\* One regex of a set, tried at text position ti from pattern position pi.
RECURSIVE MatchFrom(_, _, _, _)
MatchFrom(pat, pi, txt, ti) ==
    IF pi > Len(pat) THEN TRUE
    ELSE LET tok == pat[pi] IN
         IF tok = "WS*"
         THEN \/ MatchFrom(pat, pi + 1, txt, ti)
              \/ /\ ti <= Len(txt)
                 /\ IsSpace(txt[ti])
                 /\ MatchFrom(pat, pi, txt, ti + 1)
         ELSE IF tok \in {"-?", "s?"}
         THEN \/ MatchFrom(pat, pi + 1, txt, ti)
              \/ /\ ti <= Len(txt)
                 /\ ToLower(txt[ti]) = (IF tok = "-?" THEN "-" ELSE "s")
                 /\ MatchFrom(pat, pi + 1, txt, ti + 1)
         ELSE /\ ti <= Len(txt)
              /\ ToLower(txt[ti]) = tok
              /\ MatchFrom(pat, pi + 1, txt, ti + 1)

\* RegexSet::is_match, case_insensitive(true): some pattern matches somewhere
RegexSet_is_match(set, txt) ==
    \E pat \in set : \E start \in 1..(Len(txt) + 1) : MatchFrom(pat, 1, txt, start)

\* the enum's variants, in declaration order
LandUseTypes ==
    <<"CondominiumUnit", "Duplex", "MobileOrManufacturedHome",
      "MultiFamilyDwellings", "PlannedUnitDevelopment", "Quadruplex",
      "RuralOrAgriculturalResidence", "SingleFamilyResidential", "Townhouse",
      "Triplex", "VacationResidence">>

\* TYPE_PATTERNS: (variant, regex set) in priority order
TYPE_PATTERNS ==
    <<<<"CondominiumUnit", RE_CONDOMINIUM>>,
      <<"Duplex", RE_DUPLEX>>,
      <<"MobileOrManufacturedHome", RE_MOBILE_OR_MANUFACTURED>>,
      <<"MultiFamilyDwellings", RE_MULTI_FAMILY>>,
      <<"PlannedUnitDevelopment", RE_PLANNED>>,
      <<"Quadruplex", RE_QUADRUPLEX>>,
      <<"RuralOrAgriculturalResidence", RE_RURAL_OR_AGRICULTURAL>>,
      <<"SingleFamilyResidential", RE_SINGLE_FAMILY>>,
      <<"Townhouse", RE_TOWNHOUSE>>,
      <<"Triplex", RE_TRIPLEX>>,
      <<"VacationResidence", RE_VACATION>>>>

\* fmt::Display of a variant: its name
LandUseType_fmt(t) ==
    CASE t = "CondominiumUnit" ->
           <<"C", "o", "n", "d", "o", "m", "i", "n", "i", "u", "m", "U", "n", "i", "t">>
      [] t = "Duplex" ->
           <<"D", "u", "p", "l", "e", "x">>
      [] t = "MobileOrManufacturedHome" ->
           <<"M", "o", "b", "i", "l", "e", "O", "r", "M", "a", "n", "u", "f", "a", "c", "t", "u", "r", "e", "d", "H", "o", "m", "e">>
      [] t = "MultiFamilyDwellings" ->
           <<"M", "u", "l", "t", "i", "F", "a", "m", "i", "l", "y", "D", "w", "e", "l", "l", "i", "n", "g", "s">>
      [] t = "PlannedUnitDevelopment" ->
           <<"P", "l", "a", "n", "n", "e", "d", "U", "n", "i", "t", "D", "e", "v", "e", "l", "o", "p", "m", "e", "n", "t">>
      [] t = "Quadruplex" ->
           <<"Q", "u", "a", "d", "r", "u", "p", "l", "e", "x">>
      [] t = "RuralOrAgriculturalResidence" ->
           <<"R", "u", "r", "a", "l", "O", "r", "A", "g", "r", "i", "c", "u", "l", "t", "u", "r", "a", "l", "R", "e", "s", "i", "d", "e", "n", "c", "e">>
      [] t = "SingleFamilyResidential" ->
           <<"S", "i", "n", "g", "l", "e", "F", "a", "m", "i", "l", "y", "R", "e", "s", "i", "d", "e", "n", "t", "i", "a", "l">>
      [] t = "Townhouse" ->
           <<"T", "o", "w", "n", "h", "o", "u", "s", "e">>
      [] t = "Triplex" ->
           <<"T", "r", "i", "p", "l", "e", "x">>
      [] t = "VacationResidence" ->
           <<"V", "a", "c", "a", "t", "i", "o", "n", "R", "e", "s", "i", "d", "e", "n", "c", "e">>

\* a classification by the last entry of TYPE_PATTERNS that matches
LandUseType_try_from_LastMatch(value) ==
    LET hits == {i \in DOMAIN TYPE_PATTERNS : RegexSet_is_match(TYPE_PATTERNS[i][2], value)} IN
    IF hits = {}
    THEN [ok |-> FALSE, value |-> "", error |-> value]
    ELSE [ok |-> TRUE,
          value |-> TYPE_PATTERNS[CHOOSE i \in hits : \A j \in hits : i >= j][1],
          error |-> <<>>]

\* TryFrom<&str> for LandUseType: the first entry of TYPE_PATTERNS that matches
LandUseType_try_from(value) ==
    LET hits == {i \in DOMAIN TYPE_PATTERNS : RegexSet_is_match(TYPE_PATTERNS[i][2], value)} IN
    IF hits = {}
    THEN [ok |-> FALSE, value |-> "", error |-> value]
    ELSE [ok |-> TRUE,
          value |-> TYPE_PATTERNS[CHOOSE i \in hits : \A j \in hits : i <= j][1],
          error |-> <<>>]

(***************************************************************************)
(* Option<T>: None is the empty sequence, Some(v) the one-element one.     *)
(***************************************************************************)
None == <<>>

Some(v) == <<v>>

IsSome(o) == o # <<>>

\* a check that never sees a missing value
is_none_Never(o) == FALSE

\* Option::is_none
is_none(o) == o = <<>>

\* char::to_uppercase on the letters of the model's alphabet
ToUpper(c) ==
    IF \E i \in 1..26 : LowerLetters[i] = c
    THEN UpperLetters[CHOOSE i \in 1..26 : LowerLetters[i] = c]
    ELSE c

\* String::to_uppercase
to_uppercase(s) == [i \in DOMAIN s |-> ToUpper(s[i])]

(***************************************************************************)
(* loader::domain: the raw CSV rows and their translators.  A row of the   *)
(* model carries the fields whose checks can fail (apn, postal code, land  *)
(* use, score) and the street name as the free-text content; `parsed` is   *)
(* FALSE for a row the csv reader yields as Err.                           *)
(***************************************************************************)
\* RE_APN = [\d\w-]{7,}, unanchored: a run of seven such characters
RE_APN_is_match(apn) ==
    \E i \in 1..Len(apn) :
        /\ i + 6 <= Len(apn)
        /\ \A k \in i..(i + 6) : IsWord(apn[k]) \/ apn[k] = "-"

\* #[derive(Validate)] for CsvProperty
CsvProperty_validate(row) == RE_APN_is_match(row.apn)

\* #[derive(Validate)] for CsvPropertyPropensityScore: regex on apn, range(min = 0) on the score
CsvPropertyPropensityScore_validate(row) ==
    /\ RE_APN_is_match(row.apn)
    /\ IsSome(row.propensity_score) => row.propensity_score[1] >= 0

NoRecord == [id |-> 0, apn |-> <<>>]

\* CsvProperty::extract_apn
CsvProperty_extract_apn(row) == AssessorParcelNumber_new(row.apn)

\* TryInto<Property> for CsvProperty: apn, then address (postal code), then land use
CsvProperty_try_into(row) ==
    LET apn  == CsvProperty_extract_apn(row)
        zip  == ZipOrPostalCode_new(row.zip_or_postal_code)
        land == LandUseType_try_from(row.land_use_type)
    IN  IF ~apn.ok THEN [ok |-> FALSE, value |-> NoRecord, error |-> "apn"]
        ELSE IF ~zip.ok THEN [ok |-> FALSE, value |-> NoRecord, error |-> "zip_or_postal_code"]
        ELSE IF ~land.ok THEN [ok |-> FALSE, value |-> NoRecord, error |-> "land_use_type"]
        ELSE [ok |-> TRUE,
              value |-> [id |-> 0,
                         apn |-> apn.value,
                         street_name |-> to_uppercase(row.street_name),
                         zip_or_postal_code |-> zip.code,
                         land_use_type |-> land.value],
              error |-> ""]

\* CsvPropertyPropensityScore::extract_apn
CsvPropertyPropensityScore_extract_apn(row) == AssessorParcelNumber_new(row.apn)

\* CsvPropertyPropensityScore::extract_zip_or_postal_code
extract_zip_or_postal_code(row) ==
    IF ~IsSome(row.zip_or_postal_code) THEN [ok |-> TRUE, value |-> None]
    ELSE LET zip == ZipOrPostalCode_new(row.zip_or_postal_code[1]) IN
         [ok |-> zip.ok, value |-> Some(zip.code)]

\* TryInto<Option<PropertyPropensityScore>> for CsvPropertyPropensityScore
CsvPropertyPropensityScore_try_into(row) ==
    IF ~IsSome(row.propensity_score) THEN [ok |-> TRUE, value |-> None, error |-> ""]
    ELSE LET apn   == CsvPropertyPropensityScore_extract_apn(row)
             zip   == extract_zip_or_postal_code(row)
             score == PropensityScore_new(row.propensity_score[1])
         IN  IF ~apn.ok THEN [ok |-> FALSE, value |-> None, error |-> "apn"]
             ELSE IF ~zip.ok THEN [ok |-> FALSE, value |-> None, error |-> "zip_or_postal_code"]
             ELSE IF ~score.ok THEN [ok |-> FALSE, value |-> None, error |-> "score"]
             ELSE [ok |-> TRUE,
                   value |-> Some([id |-> 0,
                                   apn |-> apn.value,
                                   zip_or_postal_code |-> zip.value,
                                   score |-> score.score]),
                   error |-> ""]

(***************************************************************************)
(* The input rows the model draws from.                                    *)
(***************************************************************************)
Apn_123_4567  == <<"1", "2", "3", "-", "4", "5", "6", "7">>
Apn_1234567   == <<"1", "2", "3", "4", "5", "6", "7">>
Apn_7654321   == <<"7", "6", "5", "4", "3", "2", "1">>
Apn_12_345    == <<"1", "2", "-", "3", "4", "5">>
Apn_7654321_U == <<"7", "6", "5", "4", "3", "2", "1", "U+0663">>

Zip_75075 == <<"7", "5", "0", "7", "5">>
Zip_75076 == <<"7", "5", "0", "7", "6">>
Zip_7507  == <<"7", "5", "0", "7">>

Text_Duplex    == <<"D", "u", "p", "l", "e", "x">>
Text_townhouse == <<"t", "o", "w", "n", "h", "o", "u", "s", "e">>
Text_Treehouse == <<"T", "r", "e", "e", "h", "o", "u", "s", "e">>
Text_Elm       == <<"E", "l", "m">>
Text_Oak       == <<"O", "a", "k">>

CsvPropertyRow(parsed, apn, street_name, zip, land_use_type) ==
    [parsed |-> parsed, apn |-> apn, street_name |-> street_name,
     zip_or_postal_code |-> zip, land_use_type |-> land_use_type]

PropertyRows ==
    { CsvPropertyRow(FALSE, <<>>, <<>>, <<>>, <<>>),                          \* unreadable row
      CsvPropertyRow(TRUE, Apn_123_4567, Text_Elm, Zip_75075, Text_Duplex),
      CsvPropertyRow(TRUE, Apn_1234567, Text_Oak, Zip_75076, Text_townhouse), \* same parcel, other content
      CsvPropertyRow(TRUE, Apn_12_345, Text_Elm, Zip_75075, Text_Duplex),     \* fails validation
      CsvPropertyRow(TRUE, Apn_7654321, Text_Elm, Zip_75075, Text_Treehouse), \* fails translation
      CsvPropertyRow(TRUE, Apn_7654321_U, Text_Elm, Zip_75075, Text_Duplex) }

CsvPropensityRow(parsed, apn, zip, score) ==
    [parsed |-> parsed, apn |-> apn, zip_or_postal_code |-> zip, propensity_score |-> score]

PropensityRows ==
    { CsvPropensityRow(FALSE, <<>>, None, None),                              \* unreadable row
      CsvPropensityRow(TRUE, Apn_123_4567, Some(Zip_75075), Some(500)),
      CsvPropensityRow(TRUE, Apn_1234567, None, Some(40000)),                 \* same parcel, other content
      CsvPropensityRow(TRUE, Apn_1234567, Some(Zip_75075), None),             \* no score
      CsvPropensityRow(TRUE, Apn_12_345, Some(Zip_75075), None),              \* no score, bad apn
      CsvPropensityRow(TRUE, Apn_12_345, Some(Zip_75075), Some(5)),           \* fails validation
      CsvPropensityRow(TRUE, Apn_7654321, Some(Zip_7507), Some(10)),          \* fails translation
      CsvPropensityRow(TRUE, Apn_7654321_U, Some(Zip_75075), Some(900)) }
(***************************************************************************)
(* core::domain::address: the constructors and Display.  Text is joined    *)
(* as format! joins it.                                                    *)
(***************************************************************************)
Space == <<" ">>

Comma == <<",", " ">>

\* StreetDirection::for_prefix
StreetDirection_for_prefix(rep) ==
    [tag |-> "Prefix", prefix |-> to_uppercase(rep), suffix |-> <<>>]

\* StreetDirection::for_suffix
StreetDirection_for_suffix(rep) ==
    [tag |-> "Suffix", prefix |-> <<>>, suffix |-> to_uppercase(rep)]

\* StreetDirection::new on two Options
StreetDirection_new(prefix_direction, suffix_direction) ==
    IF ~IsSome(prefix_direction) /\ ~IsSome(suffix_direction)
    THEN [tag |-> "None", prefix |-> <<>>, suffix |-> <<>>]
    ELSE IF ~IsSome(suffix_direction) THEN StreetDirection_for_prefix(prefix_direction[1])
    ELSE IF ~IsSome(prefix_direction) THEN StreetDirection_for_suffix(suffix_direction[1])
    ELSE [tag |-> "Both",
          prefix |-> to_uppercase(prefix_direction[1]),
          suffix |-> to_uppercase(suffix_direction[1])]

\* a decoration that leaves the street name as it is
decorate_street_name_Bare(direction, street_name) == street_name

\* StreetDirection::decorate_street_name
decorate_street_name(direction, street_name) ==
    CASE direction.tag = "None" -> street_name
      [] direction.tag = "Prefix" -> direction.prefix \o Space \o street_name
      [] direction.tag = "Suffix" -> street_name \o Space \o direction.suffix
      [] direction.tag = "Both" ->
             direction.prefix \o Space \o street_name \o Space \o direction.suffix

\* AddressLine::new: name and suffix are upper-cased, the number is taken as given
AddressLine_new(number, name, suffix, direction) ==
    [street_number |-> number,
     street_name |-> to_uppercase(name),
     street_suffix |-> to_uppercase(suffix),
     street_direction |-> direction]

\* Display for AddressLine
AddressLine_fmt(line) ==
    LET street_name == line.street_name \o Space \o line.street_suffix IN
    line.street_number \o Space \o decorate_street_name(line.street_direction, street_name)

\* SecondaryAddressLine::new
SecondaryAddressLine_new(designator, number) ==
    [designator |-> to_uppercase(designator), number |-> to_uppercase(number)]

\* Display for SecondaryAddressLine
SecondaryAddressLine_fmt(second) == second.designator \o Space \o second.number

\* City::new
City_new(city) == to_uppercase(city)

\* StateOrRegion::new
StateOrRegion_new(state_or_region) == to_uppercase(state_or_region)

\* USA: CountryCode::new("USA", "United States of America")
USA ==
    [iso_3166_alpha_3 |-> to_uppercase(<<"U", "S", "A">>),
     official_name |-> to_uppercase(<<"U", "n", "i", "t", "e", "d", " ", "S", "t", "a", "t", "e", "s",
                                      " ", "o", "f", " ", "A", "m", "e", "r", "i", "c", "a">>)]

\* Address::new_in_usa
Address_new_in_usa(address_line, secondary_address_line, city, state, zip_code) ==
    [address_line |-> address_line,
     secondary_address_line |-> secondary_address_line,
     city |-> city,
     state_or_region |-> state,
     zip_or_postal_code |-> zip_code,
     locale |-> USA]

\* Display for ZipOrPostalCode
ZipOrPostalCode_fmt(zip) == zip.code

\* Display for Address
Address_fmt(address) ==
    LET address_lines ==
            IF IsSome(address.secondary_address_line)
            THEN AddressLine_fmt(address.address_line) \o Space
                     \o SecondaryAddressLine_fmt(address.secondary_address_line[1])
            ELSE AddressLine_fmt(address.address_line)
    IN  address_lines \o Comma \o address.city \o Comma \o address.state_or_region \o Space
            \o ZipOrPostalCode_fmt(address.zip_or_postal_code) \o Comma
            \o address.locale.iso_3166_alpha_3


\* StreetDirection::prefix
StreetDirection_prefix(direction) ==
    IF direction.tag \in {"Prefix", "Both"} THEN Some(direction.prefix) ELSE None

\* StreetDirection::suffix
StreetDirection_suffix(direction) ==
    IF direction.tag \in {"Suffix", "Both"} THEN Some(direction.suffix) ELSE None

(***************************************************************************)
(* core::domain::property / propensity: the repositories.  A table is the  *)
(* sequence of its rows in insertion order; the INSERT statements append   *)
(* and the schema's own constraints are not part of the sources.           *)
(***************************************************************************)
\* `as i16` and `as u16`: two's-complement reinterpretation
as_i16(v) == IF v >= 32768 THEN v - 65536 ELSE v

as_u16(v) == IF v < 0 THEN v + 65536 ELSE v

\* the closure of PropertyRecordRepository::find that rebuilds a Property from a row
Property_from_row(row) ==
    LET apn  == AssessorParcelNumber_new(row.apn)
        zip  == ZipOrPostalCode_new(row.zip_or_postal_code)
        land == LandUseType_try_from(row.land_use_type)
    IN  IF apn.ok /\ zip.ok /\ land.ok
        THEN [tag |-> "some", cause |-> "",
              value |-> [id |-> row.id,
                         apn |-> apn.value,
                         street_name |-> to_uppercase(row.street_name),
                         zip_or_postal_code |-> zip.code,
                         land_use_type |-> land.value]]
        ELSE [tag |-> "err", cause |-> "row", value |-> NoRecord]

\* a lookup that matches no stored row (the key is never found)
PropertyRecordRepository_find_Blind(apn, table) ==
    {[tag |-> "err", cause |-> "query", value |-> NoRecord],
     [tag |-> "none", cause |-> "", value |-> NoRecord]}

\* PropertyRecordRepository::find: every result the call can return on `table`.
\* The query itself can fail; LIMIT 1 without ORDER BY returns any matching row.
PropertyRecordRepository_find(apn, table) ==
    LET hits == {i \in DOMAIN table : table[i].apn = apn} IN
    {[tag |-> "err", cause |-> "query", value |-> NoRecord]}
        \cup (IF hits = {} THEN {[tag |-> "none", cause |-> "", value |-> NoRecord]}
              ELSE {Property_from_row(table[i]) : i \in hits})

\* a conditional insert: nothing is appended when the apn is stored already
PropertyRecordRepository_save_IfAbsent(table, rec) ==
    IF \E i \in DOMAIN table : table[i].apn = rec.apn
    THEN table
    ELSE Append(table, [id |-> Len(table) + 1,
                        apn |-> rec.apn,
                        street_name |-> rec.street_name,
                        zip_or_postal_code |-> rec.zip_or_postal_code,
                        land_use_type |-> LandUseType_fmt(rec.land_use_type)])

\* PropertyRecordRepository::save: INSERT ... RETURNING id
PropertyRecordRepository_save(table, rec) ==
    Append(table, [id |-> Len(table) + 1,
                   apn |-> rec.apn,
                   street_name |-> rec.street_name,
                   zip_or_postal_code |-> rec.zip_or_postal_code,
                   land_use_type |-> LandUseType_fmt(rec.land_use_type)])

\* the closure of find_for_apn that rebuilds a PropertyPropensityScore from a row
PropertyPropensityScore_from_row(row) ==
    LET zip   == IF IsSome(row.zip_or_postal_code)
                 THEN ZipOrPostalCode_new(row.zip_or_postal_code[1])
                 ELSE [ok |-> TRUE, code |-> <<>>]
        apn   == AssessorParcelNumber_new(row.apn)
        score == PropensityScore_new(as_u16(row.score))
    IN  IF zip.ok /\ apn.ok /\ score.ok
        THEN [tag |-> "some", cause |-> "",
              value |-> [id |-> row.id,
                         apn |-> apn.value,
                         zip_or_postal_code |-> row.zip_or_postal_code,
                         score |-> score.score]]
        ELSE [tag |-> "err", cause |-> "row", value |-> NoRecord]

\* PropertyPropensityScoreRepository::find_for_apn
PropertyPropensityScoreRepository_find_for_apn(apn, table) ==
    LET hits == {i \in DOMAIN table : table[i].apn = apn} IN
    {[tag |-> "err", cause |-> "query", value |-> NoRecord]}
        \cup (IF hits = {} THEN {[tag |-> "none", cause |-> "", value |-> NoRecord]}
              ELSE {PropertyPropensityScore_from_row(table[i]) : i \in hits})

\* a save that replaces what is stored with the new record
PropertyPropensityScoreRepository_save_Replacing(table, rec) ==
    <<[id |-> Len(table) + 1,
       apn |-> rec.apn,
       zip_or_postal_code |-> rec.zip_or_postal_code,
       score |-> as_i16(rec.score)]>>

\* PropertyPropensityScoreRepository::save
PropertyPropensityScoreRepository_save(table, rec) ==
    Append(table, [id |-> Len(table) + 1,
                   apn |-> rec.apn,
                   zip_or_postal_code |-> rec.zip_or_postal_code,
                   score |-> as_i16(rec.score)])

\* The schema is not among the sources: the store is an append-only table
\* without a uniqueness constraint on apn, so an INSERT of a second row with
\* a stored apn succeeds.
ApnIsUniqueKey == FALSE

\* what the store can do to a do_save
StoreResults == {"saved", "insert failed", "begin failed", "commit failed"}

(***************************************************************************)
(* State.  Two invocations of the loader binary (Runs); each runs          *)
(* load_property_data or load_propensity_data over a row stream.           *)
(***************************************************************************)
Runs == {1, 2}

\* rows read by all runs together
MaxRows == 2

VARIABLES
    properties,        \* table Properties
    propensities,      \* table Propensities
    storage_failed,    \* some repository call so far was failed by the store
    kind,              \* kind[r]: the subcommand of run r
    pc,                \* pc[r]: where run r stands
    rows,              \* rows[r]: the rows the reader has yielded so far
    record,            \* record[r]: the domain record of the row in save_record
    quality,           \* quality[r]: QualityMeasure
    skipped_records,   \* skipped_records[r]
    nr_valid_records,  \* nr_valid_records[r]
    nr_saved_records,  \* nr_saved_records[r]
    outcome,           \* outcome[r][i]: the branch in which row i ended
    call               \* the latest call answered outside the loaders: [fn, arg, done, result]

vars == <<properties, propensities, storage_failed, kind, pc, rows, record, quality,
          skipped_records, nr_valid_records, nr_saved_records, outcome, call>>

\* QualityMeasure::default(); the property loader's has the three failure lists only
QualityMeasure_default ==
    [propensity_zips |-> <<>>,
     deserialization_failures |-> <<>>,
     validation_failures |-> <<>>,
     save_failures |-> <<>>,
     missing_scores |-> <<>>,
     not_in_core_properties |-> <<>>]

\* no call yet
NoCall == [fn |-> "none", arg |-> <<>>, done |-> TRUE, result |-> <<>>]

\* the empty store and two loader processes not yet started
InitIngestion ==
    /\ properties = <<>>
    /\ propensities = <<>>
    /\ storage_failed = FALSE
    /\ kind = [r \in Runs |-> "none"]
    /\ pc = [r \in Runs |-> "idle"]
    /\ rows = [r \in Runs |-> <<>>]
    /\ record = [r \in Runs |-> NoRecord]
    /\ quality = [r \in Runs |-> QualityMeasure_default]
    /\ skipped_records = [r \in Runs |-> <<>>]
    /\ nr_valid_records = [r \in Runs |-> 0]
    /\ nr_saved_records = [r \in Runs |-> 0]
    /\ outcome = [r \in Runs |-> <<>>]

Init ==
    /\ InitIngestion
    /\ call = NoCall

RECURSIVE SumLen(_, _)
SumLen(f, S) ==
    IF S = {} THEN 0
    ELSE LET r == CHOOSE q \in S : TRUE IN Len(f[r]) + SumLen(f, S \ {r})

TotalRows == SumLen(rows, Runs)

\* the 1-based index of the row run r is working on
idx(r) == Len(rows[r])

csv_record(r) == rows[r][Len(rows[r])]

\* a skip that ends the run instead of continuing with the next row
SkipRow_Abort(r, i, q, label) ==
    /\ quality' = [quality EXCEPT ![r] = q]
    /\ skipped_records' = [skipped_records EXCEPT ![r] = Append(@, i)]
    /\ outcome' = [outcome EXCEPT ![r] = Append(@, label)]
    /\ pc' = [pc EXCEPT ![r] = "panicked"]
    /\ record' = [record EXCEPT ![r] = NoRecord]
    /\ UNCHANGED nr_saved_records

\* A row ends skipped: `skipped_records.push(idx); continue` with the lists as in q.
SkipRow(r, i, q, label) ==
    /\ quality' = [quality EXCEPT ![r] = q]
    /\ skipped_records' = [skipped_records EXCEPT ![r] = Append(@, i)]
    /\ outcome' = [outcome EXCEPT ![r] = Append(@, label)]
    /\ pc' = [pc EXCEPT ![r] = "loop"]
    /\ record' = [record EXCEPT ![r] = NoRecord]
    /\ UNCHANGED nr_saved_records

\* a saved row the loop does not count
RowSaved_Uncounted(r, q) ==
    /\ quality' = [quality EXCEPT ![r] = q]
    /\ outcome' = [outcome EXCEPT ![r] = Append(@, "saved")]
    /\ pc' = [pc EXCEPT ![r] = "loop"]
    /\ record' = [record EXCEPT ![r] = NoRecord]
    /\ UNCHANGED <<skipped_records, nr_saved_records>>

\* A row ends saved: save_record returns true and the loop counts it.
RowSaved(r, q) ==
    /\ quality' = [quality EXCEPT ![r] = q]
    /\ nr_saved_records' = [nr_saved_records EXCEPT ![r] = @ + 1]
    /\ outcome' = [outcome EXCEPT ![r] = Append(@, "saved")]
    /\ pc' = [pc EXCEPT ![r] = "loop"]
    /\ record' = [record EXCEPT ![r] = NoRecord]
    /\ UNCHANGED skipped_records

\* a fatal error after which the run goes on with its next row
Panic_Resuming(r) ==
    /\ pc' = [pc EXCEPT ![r] = "loop"]
    /\ UNCHANGED <<quality, skipped_records, nr_saved_records, outcome, record>>

\* A panic unwinds main: the process ends where it stands.
Panic(r) ==
    /\ pc' = [pc EXCEPT ![r] = "panicked"]
    /\ UNCHANGED <<quality, skipped_records, nr_saved_records, outcome, record>>

Push(q, field, entry) == [q EXCEPT ![field] = Append(@, entry)]

(***************************************************************************)
(* loader::main and the two loaders.                                       *)
(***************************************************************************)
\* main: the subcommand is dispatched; opening the file or the pool can fail,
\* and main's expect then ends the process.
main(r) ==
    /\ pc[r] = "idle"
    /\ \E k \in {"property", "propensity"} : kind' = [kind EXCEPT ![r] = k]
    /\ \E opened \in BOOLEAN :
         pc' = [pc EXCEPT ![r] = IF opened THEN "loop" ELSE "panicked"]
    /\ UNCHANGED <<properties, propensities, storage_failed, rows, record, quality,
                   skipped_records, nr_valid_records, nr_saved_records, outcome>>

\* load_property_data: one iteration of the loop, up to the call of save_record
load_property_data(r) ==
    /\ pc[r] = "loop"
    /\ kind[r] = "property"
    /\ TotalRows < MaxRows
    /\ \E ingress \in PropertyRows :
         LET i == Len(rows[r]) + 1
             property_record == CsvProperty_try_into(ingress)
         IN  /\ rows' = [rows EXCEPT ![r] = Append(@, ingress)]
             /\ IF ~ingress.parsed
                THEN /\ SkipRow(r, i,
                                Push(quality[r], "deserialization_failures", [index |-> i, error |-> "csv"]),
                                "skipped-deserialization-failure")
                     /\ UNCHANGED nr_valid_records
                ELSE IF ~CsvProperty_validate(ingress)
                THEN /\ SkipRow(r, i,
                                Push(quality[r], "validation_failures", [index |-> i, error |-> "apn"]),
                                "skipped-validation-failure")
                     /\ UNCHANGED nr_valid_records
                ELSE IF ~property_record.ok
                THEN /\ SkipRow(r, i,
                                Push(quality[r], "deserialization_failures",
                                     [index |-> i, error |-> property_record.error]),
                                "skipped-deserialization-failure")
                     /\ UNCHANGED nr_valid_records
                ELSE /\ nr_valid_records' = [nr_valid_records EXCEPT ![r] = @ + 1]
                     /\ record' = [record EXCEPT ![r] = property_record.value]
                     /\ pc' = [pc EXCEPT ![r] = "find"]
                     /\ UNCHANGED <<quality, skipped_records, nr_saved_records, outcome>>
    /\ UNCHANGED <<properties, propensities, storage_failed, kind>>

\* load_property_data: the stream is exhausted; the summary is logged
load_property_data_end(r) ==
    /\ pc[r] = "loop"
    /\ kind[r] = "property"
    /\ pc' = [pc EXCEPT ![r] = "done"]
    /\ UNCHANGED <<properties, propensities, storage_failed, kind, rows, record, quality,
                   skipped_records, nr_valid_records, nr_saved_records, outcome>>

\* save_record, arm Err(err): the lookup failed
property_lookup_failed(r) ==
    /\ SkipRow(r, idx(r), quality[r], "skipped-lookup-error")
    /\ UNCHANGED properties

\* a duplicate arm that stores the row's content again
property_previously_loaded_Resave(r) ==
    /\ SkipRow(r, idx(r), quality[r], "skipped-duplicate")
    /\ properties' = PropertyRecordRepository_save(properties, record[r])

\* save_record, arm Ok(Some(record)): previously loaded
property_previously_loaded(r) ==
    /\ SkipRow(r, idx(r), quality[r], "skipped-duplicate")
    /\ UNCHANGED properties

\* save_record, arm Ok(None): go on to do_save
property_not_loaded(r) ==
    /\ pc' = [pc EXCEPT ![r] = "save"]
    /\ UNCHANGED <<properties, quality, skipped_records, nr_saved_records, outcome, record>>

\* property_loader::save_record: the existence check, for one result of find
property_save_record_on(r, found) ==
    /\ pc[r] = "find"
    /\ kind[r] = "property"
    /\ storage_failed' = (storage_failed \/ found.cause = "query")
    /\ IF found.tag = "err" THEN property_lookup_failed(r)
       ELSE IF found.tag = "some" THEN property_previously_loaded(r)
       ELSE property_not_loaded(r)
    /\ UNCHANGED <<propensities, kind, rows, nr_valid_records>>

property_save_record(r) ==
    \E found \in PropertyRecordRepository_find(record[r].apn, properties) :
        property_save_record_on(r, found)

\* save_record, arm Ok(_property) of do_save: the loop counts the row as saved
property_saved(r) ==
    /\ properties' = PropertyRecordRepository_save(properties, record[r])
    /\ RowSaved(r, quality[r])

\* a failure arm that drops the raw row
property_save_failed_Uncharted(r) ==
    /\ SkipRow(r, idx(r), quality[r], "skipped-save-failure")
    /\ UNCHANGED properties

\* save_record, arm Err(err) of do_save: the raw row goes to save_failures
property_save_failed(r) ==
    /\ SkipRow(r, idx(r),
               Push(quality[r], "save_failures", [csv_record |-> csv_record(r), error |-> "save"]),
               "skipped-save-failure")
    /\ UNCHANGED properties

\* property_loader::do_save for one behaviour of the store: begin().expect, save()?, commit().expect
property_do_save_on(r, db) ==
    /\ pc[r] = "save"
    /\ kind[r] = "property"
    /\ db = "saved" => ~(ApnIsUniqueKey /\ \E i \in DOMAIN properties : properties[i].apn = record[r].apn)
    /\ storage_failed' = (storage_failed \/ db # "saved")
    /\ IF db = "saved" THEN property_saved(r)
       ELSE IF db = "insert failed" THEN property_save_failed(r)
       ELSE Panic(r) /\ UNCHANGED properties
    /\ UNCHANGED <<propensities, kind, rows, nr_valid_records>>

property_do_save(r) == \E db \in StoreResults : property_do_save_on(r, db)

\* load_propensity_data: one iteration of the loop, up to the call of save_record
load_propensity_data(r) ==
    /\ pc[r] = "loop"
    /\ kind[r] = "propensity"
    /\ TotalRows < MaxRows
    /\ \E ingress \in PropensityRows :
         LET i == Len(rows[r]) + 1
             propensity_record == CsvPropertyPropensityScore_try_into(ingress)
         IN  /\ rows' = [rows EXCEPT ![r] = Append(@, ingress)]
             /\ IF ~ingress.parsed
                THEN /\ SkipRow(r, i,
                                Push(quality[r], "deserialization_failures", [index |-> i, error |-> "csv"]),
                                "skipped-deserialization-failure")
                     /\ UNCHANGED nr_valid_records
                ELSE IF is_none(ingress.propensity_score)
                THEN /\ SkipRow(r, i, Push(quality[r], "missing_scores", i), "skipped-missing-score")
                     /\ UNCHANGED nr_valid_records
                ELSE IF ~CsvPropertyPropensityScore_validate(ingress)
                THEN /\ SkipRow(r, i,
                                Push(quality[r], "validation_failures", [index |-> i, error |-> "apn"]),
                                "skipped-validation-failure")
                     /\ UNCHANGED nr_valid_records
                ELSE IF ~propensity_record.ok
                THEN /\ SkipRow(r, i,
                                Push(quality[r], "deserialization_failures",
                                     [index |-> i, error |-> propensity_record.error]),
                                "skipped-deserialization-failure")
                     /\ UNCHANGED nr_valid_records
                ELSE IF ~IsSome(propensity_record.value)
                THEN /\ SkipRow(r, i, Push(quality[r], "missing_scores", i), "skipped-missing-score")
                     /\ UNCHANGED nr_valid_records
                ELSE /\ nr_valid_records' = [nr_valid_records EXCEPT ![r] = @ + 1]
                     /\ record' = [record EXCEPT ![r] = propensity_record.value[1]]
                     /\ pc' = [pc EXCEPT ![r] = "find"]
                     /\ UNCHANGED <<quality, skipped_records, nr_saved_records, outcome>>
    /\ UNCHANGED <<properties, propensities, storage_failed, kind>>

\* load_propensity_data: the stream is exhausted; summarize prints the report
summarize(r) ==
    /\ pc[r] = "loop"
    /\ kind[r] = "propensity"
    /\ pc' = [pc EXCEPT ![r] = "done"]
    /\ UNCHANGED <<properties, propensities, storage_failed, kind, rows, record, quality,
                   skipped_records, nr_valid_records, nr_saved_records, outcome>>

\* a failed lookup taken for "not loaded": the row goes on to the assessment
propensity_lookup_failed_GoingOn(r) ==
    /\ pc' = [pc EXCEPT ![r] = "assess"]
    /\ UNCHANGED <<propensities, quality, skipped_records, nr_saved_records, outcome, record>>

\* save_record, arm Err(err): the lookup failed
propensity_lookup_failed(r) ==
    /\ SkipRow(r, idx(r), quality[r], "skipped-lookup-error")
    /\ UNCHANGED propensities

\* save_record, arm Ok(Some(record)): previously loaded; the stored score is charted
propensity_previously_loaded(r, stored) ==
    /\ SkipRow(r, idx(r),
               Push(quality[r], "propensity_zips", <<stored.score, stored.zip_or_postal_code>>),
               "skipped-duplicate")
    /\ UNCHANGED propensities

\* save_record, arm Ok(None), first half: go on to do_assess_for_property
propensity_not_loaded(r) ==
    /\ pc' = [pc EXCEPT ![r] = "assess"]
    /\ UNCHANGED <<propensities, quality, skipped_records, nr_saved_records, outcome, record>>

\* propensity_loader::save_record: the existence check, for one result of find_for_apn
propensity_save_record_on(r, found) ==
    /\ pc[r] = "find"
    /\ kind[r] = "propensity"
    /\ storage_failed' = (storage_failed \/ found.cause = "query")
    /\ IF found.tag = "err" THEN propensity_lookup_failed(r)
       ELSE IF found.tag = "some" THEN propensity_previously_loaded(r, found.value)
       ELSE propensity_not_loaded(r)
    /\ UNCHANGED <<properties, kind, rows, nr_valid_records>>

propensity_save_record(r) ==
    \E found \in PropertyPropensityScoreRepository_find_for_apn(record[r].apn, propensities) :
        propensity_save_record_on(r, found)

\* an assessment that lets only rows with a core property through to do_save
propensity_assessed_Blocking(r, matched) ==
    IF matched
    THEN /\ pc' = [pc EXCEPT ![r] = "save"]
         /\ UNCHANGED <<quality, skipped_records, nr_saved_records, outcome, record>>
    ELSE SkipRow(r, idx(r),
                 Push(quality[r], "not_in_core_properties", record[r]),
                 "skipped-save-failure")

\* save_record after do_assess_for_property: `if !matched { not_in_core_properties.push }`,
\* then on to do_save
propensity_assessed(r, matched) ==
    /\ quality' = [quality EXCEPT ![r] =
                      IF matched THEN @
                      ELSE Push(@, "not_in_core_properties", record[r])]
    /\ pc' = [pc EXCEPT ![r] = "save"]
    /\ UNCHANGED <<skipped_records, nr_saved_records, outcome, record>>

\* an assessment whose lookup error is passed on: the row is skipped
do_assess_for_property_on_Propagating(r, result) ==
    /\ pc[r] = "assess"
    /\ storage_failed' = (storage_failed \/ result.cause = "query")
    /\ IF result.tag = "err"
       THEN SkipRow(r, idx(r), quality[r], "skipped-lookup-error")
       ELSE propensity_assessed(r, result.tag = "some")
    /\ UNCHANGED <<properties, propensities, kind, rows, nr_valid_records>>

\* do_assess_for_property(..).unwrap_or(false), for one result of the lookup
do_assess_for_property_on(r, result) ==
    /\ pc[r] = "assess"
    /\ storage_failed' = (storage_failed \/ result.cause = "query")
    /\ propensity_assessed(r, result.tag = "some")
    /\ UNCHANGED <<properties, propensities, kind, rows, nr_valid_records>>

do_assess_for_property(r) ==
    \E result \in PropertyRecordRepository_find(record[r].apn, properties) :
        do_assess_for_property_on(r, result)

\* save_record, arm Ok(_score) of do_save: the score is charted, the row counted as saved
propensity_saved(r) ==
    /\ propensities' = PropertyPropensityScoreRepository_save(propensities, record[r])
    /\ RowSaved(r, Push(quality[r], "propensity_zips", <<record[r].score, record[r].zip_or_postal_code>>))

\* save_record, arm Err(err) of do_save: the raw row goes to save_failures
propensity_save_failed(r) ==
    /\ SkipRow(r, idx(r),
               Push(quality[r], "save_failures", [csv_record |-> csv_record(r), error |-> "save"]),
               "skipped-save-failure")
    /\ UNCHANGED propensities

\* propensity_loader::do_save for one behaviour of the store
propensity_do_save_on(r, db) ==
    /\ pc[r] = "save"
    /\ kind[r] = "propensity"
    /\ db = "saved" => ~(ApnIsUniqueKey /\ \E i \in DOMAIN propensities : propensities[i].apn = record[r].apn)
    /\ storage_failed' = (storage_failed \/ db # "saved")
    /\ IF db = "saved" THEN propensity_saved(r)
       ELSE IF db = "insert failed" THEN propensity_save_failed(r)
       ELSE Panic(r) /\ UNCHANGED propensities
    /\ UNCHANGED <<properties, kind, rows, nr_valid_records>>

propensity_do_save(r) == \E db \in StoreResults : propensity_do_save_on(r, db)

(***************************************************************************)
(* Specifications.                                                         *)
(***************************************************************************)
Ended(r) == pc[r] \in {"done", "panicked"}

\* run r is the invocation in progress: the earlier ones have exited
Turn(r) == \A q \in Runs : q < r => Ended(q)

\* Ingestion as the program is run: one invocation after the other.
Next ==
    \/ \E r \in Runs : Turn(r) /\ main(r) /\ UNCHANGED call
    \/ \E r \in Runs : Turn(r) /\ load_property_data(r) /\ UNCHANGED call
    \/ \E r \in Runs : Turn(r) /\ load_property_data_end(r) /\ UNCHANGED call
    \/ \E r \in Runs : Turn(r) /\ property_save_record(r) /\ UNCHANGED call
    \/ \E r \in Runs : Turn(r) /\ property_do_save(r) /\ UNCHANGED call
    \/ \E r \in Runs : Turn(r) /\ load_propensity_data(r) /\ UNCHANGED call
    \/ \E r \in Runs : Turn(r) /\ summarize(r) /\ UNCHANGED call
    \/ \E r \in Runs : Turn(r) /\ propensity_save_record(r) /\ UNCHANGED call
    \/ \E r \in Runs : Turn(r) /\ do_assess_for_property(r) /\ UNCHANGED call
    \/ \E r \in Runs : Turn(r) /\ propensity_do_save(r) /\ UNCHANGED call

Spec == Init /\ [][Next]_vars

\* Two invocations at the same time against the same store.
NextConcurrent ==
    \/ \E r \in Runs : main(r) /\ UNCHANGED call
    \/ \E r \in Runs : load_property_data(r) /\ UNCHANGED call
    \/ \E r \in Runs : load_property_data_end(r) /\ UNCHANGED call
    \/ \E r \in Runs : property_save_record(r) /\ UNCHANGED call
    \/ \E r \in Runs : property_do_save(r) /\ UNCHANGED call
    \/ \E r \in Runs : load_propensity_data(r) /\ UNCHANGED call
    \/ \E r \in Runs : summarize(r) /\ UNCHANGED call
    \/ \E r \in Runs : propensity_save_record(r) /\ UNCHANGED call
    \/ \E r \in Runs : do_assess_for_property(r) /\ UNCHANGED call
    \/ \E r \in Runs : propensity_do_save(r) /\ UNCHANGED call

SpecConcurrent == Init /\ [][NextConcurrent]_vars

\* The sequential program under a scheduler that lets a running process step.
FairSpec == Spec /\ WF_vars(Next)

(***************************************************************************)
(* server::routes::propensity: the search request and the query behind it. *)
(***************************************************************************)
LIMIT_DEFAULT == 10

\* the rows of `Propensities INNER JOIN Properties ON apn WHERE Propensities.zip = $1`,
\* each a pair of row positions
JoinedRows(zip_code, scores, homes) ==
    {ij \in (DOMAIN scores) \X (DOMAIN homes) :
        /\ scores[ij[1]].apn = homes[ij[2]].apn
        /\ scores[ij[1]].zip_or_postal_code = Some(zip_code.code)}

\* ORDER BY Propensities.score DESC on the stored smallint: every order of
\* the rows the database may return (rows of equal score in any order)
OrderedByScoreDesc(S, scores) ==
    {s \in [1..Cardinality(S) -> S] :
        /\ \A a, b \in DOMAIN s : a # b => s[a] # s[b]
        /\ \A a, b \in DOMAIN s : a < b => scores[s[a][1]].score >= scores[s[b][1]].score}

\* LIMIT $2
Limit(s, n) == SubSeq(s, 1, IF n < Len(s) THEN n ELSE Len(s))

\* the closure of find_address_scores_for_zip_code that rebuilds one
\* (score, Some(address)) from a joined row; the address columns the model's
\* rows do not carry are empty text
ScoreAddress_from_row(p, a) ==
    LET p_zip == IF IsSome(p.zip_or_postal_code)
                 THEN ZipOrPostalCode_new(p.zip_or_postal_code[1])
                 ELSE [ok |-> TRUE, code |-> <<>>]
        apn   == AssessorParcelNumber_new(p.apn)
        score == PropensityScore_new(as_u16(p.score))
        a_zip == ZipOrPostalCode_new(a.zip_or_postal_code)
    IN  IF p_zip.ok /\ apn.ok /\ score.ok /\ a_zip.ok
        THEN [ok |-> TRUE,
              score |-> [id |-> p.id, apn |-> apn.value,
                         zip_or_postal_code |-> p.zip_or_postal_code, score |-> score.score],
              address |-> Some(Address_new_in_usa(
                              AddressLine_new(<<>>, a.street_name, <<>>, StreetDirection_new(None, None)),
                              None, City_new(<<>>), StateOrRegion_new(<<>>), a_zip))]
        ELSE [ok |-> FALSE, score |-> NoRecord, address |-> None]

\* PropertyPropensityScoreRepository::find_address_scores_for_zip_code: every
\* result the call can return; the query can fail, and one row that cannot
\* be rebuilt fails the whole collect
find_address_scores_for_zip_code(zip_code, limit, scores, homes) ==
    {[tag |-> "err", value |-> <<>>]} \cup
    { LET rows_ == Limit(s, limit)
          built == [k \in DOMAIN rows_ |-> ScoreAddress_from_row(scores[rows_[k][1]], homes[rows_[k][2]])]
      IN  IF \A k \in DOMAIN built : built[k].ok
          THEN [tag |-> "ok", value |-> built]
          ELSE [tag |-> "err", value |-> <<>>]
      : s \in OrderedByScoreDesc(JoinedRows(zip_code, scores, homes), scores) }

\* the query parameters of the requests the model sends
SearchParameters ==
    [zip_code : {Zip_75075, Zip_7507, <<"7", "5", "0", "7", "U+0663">>}, limit : {None, Some(1)}]

\* PropensitySearchItem of one (score, address)
PropensitySearchItem(found) ==
    [apn |-> found.score.apn, propensity_score |-> found.score.score, address |-> found.address]

\* propensity_search for one result of the repository call; `queried` tells
\* whether the handler got as far as the repository
propensity_search_on(parameters, found) ==
    LET zip_code == ZipOrPostalCode_new(parameters.zip_code) IN
    /\ call' = [fn |-> "propensity_search", arg |-> parameters, done |-> TRUE,
                queried |-> zip_code.ok,
                result |-> IF ~zip_code.ok THEN [status |-> 400, body |-> <<>>]
                           ELSE IF found.tag = "err" THEN [status |-> 500, body |-> <<>>]
                           ELSE [status |-> 200,
                                 body |-> [k \in DOMAIN found.value |->
                                              PropensitySearchItem(found.value[k])]]]
    /\ UNCHANGED <<properties, propensities, storage_failed, kind, pc, rows, record, quality,
                   skipped_records, nr_valid_records, nr_saved_records, outcome>>

\* server::routes::propensity::propensity_search
propensity_search ==
    \E parameters \in SearchParameters :
        LET zip_code == ZipOrPostalCode_new(parameters.zip_code)
            limit == IF IsSome(parameters.limit) THEN parameters.limit[1] ELSE LIMIT_DEFAULT
        IN  \E found \in find_address_scores_for_zip_code(zip_code, limit, propensities, properties) :
                propensity_search_on(parameters, found)

\* Ingestion runs one after the other while the server answers searches.
NextService ==
    \/ \E r \in Runs : Turn(r) /\ main(r) /\ UNCHANGED call
    \/ \E r \in Runs : Turn(r) /\ load_property_data(r) /\ UNCHANGED call
    \/ \E r \in Runs : Turn(r) /\ load_property_data_end(r) /\ UNCHANGED call
    \/ \E r \in Runs : Turn(r) /\ property_save_record(r) /\ UNCHANGED call
    \/ \E r \in Runs : Turn(r) /\ property_do_save(r) /\ UNCHANGED call
    \/ \E r \in Runs : Turn(r) /\ load_propensity_data(r) /\ UNCHANGED call
    \/ \E r \in Runs : Turn(r) /\ summarize(r) /\ UNCHANGED call
    \/ \E r \in Runs : Turn(r) /\ propensity_save_record(r) /\ UNCHANGED call
    \/ \E r \in Runs : Turn(r) /\ do_assess_for_property(r) /\ UNCHANGED call
    \/ \E r \in Runs : Turn(r) /\ propensity_do_save(r) /\ UNCHANGED call
    \/ propensity_search

SpecService == Init /\ [][NextService]_vars

(***************************************************************************)
(* The value objects on their own: a call draws its argument from a        *)
(* bounded set of inputs and the constructor is applied to it.             *)
(***************************************************************************)
ingestion_vars ==
    <<properties, propensities, storage_failed, kind, pc, rows, record, quality,
      skipped_records, nr_valid_records, nr_saved_records, outcome>>

\* a call not yet answered
Pending(fn, arg) == [fn |-> fn, arg |-> arg, done |-> FALSE, result |-> <<>>]

\* the call on `fn` is answered with `result`
Answer(fn, result) ==
    /\ call.fn = fn
    /\ ~call.done
    /\ call' = [call EXCEPT !.done = TRUE, !.result = result]
    /\ UNCHANGED ingestion_vars

\* the scores passed to PropensityScore::new: 0..MaxScore and the ends of the u16 range
MaxScore == 952

ScoreInputs == (0..MaxScore) \cup {32767, 32768, 65535}

\* PropensityScore::new(arg)
apply_PropensityScore_new == Answer("PropensityScore::new", PropensityScore_new(call.arg))

\* every text of at most n characters of the alphabet A
Strings(A, n) == UNION {[1..k -> A] : k \in 0..n}

\* the texts passed to ZipOrPostalCode::new: up to MaxZipLen characters of an
\* ASCII digit, a letter, a non-ASCII digit and a blank, and a ZIP+4
MaxZipLen == 6

ZipAlphabet == {"7", "a", "U+0663", " "}


ZipInputs ==
    Strings(ZipAlphabet, MaxZipLen)
        \cup {Zip_75075, Zip_7507, <<"7", "5", "0", "7", "5", "-", "1", "2", "3", "4">>}

\* ZipOrPostalCode::new(arg)
apply_ZipOrPostalCode_new == Answer("ZipOrPostalCode::new", ZipOrPostalCode_new(call.arg))

\* the texts passed to AssessorParcelNumber::new: up to MaxApnLen characters
\* of a digit, a hyphen, a letter and a non-ASCII digit, on their own and
\* after twelve digits (so that the width of 14 is reached and passed), and
\* the APNs of the rows
MaxApnLen == 3

ApnAlphabet == {"1", "-", "A", "U+0663"}

Apn_TwelveDigits == <<"1", "2", "3", "4", "5", "6", "7", "8", "9", "0", "1", "2">>

ApnInputs ==
    {prefix \o s : prefix \in {<<>>, Apn_TwelveDigits}, s \in Strings(ApnAlphabet, MaxApnLen)}
        \cup {Apn_123_4567, Apn_1234567, Apn_7654321, Apn_12_345, Apn_7654321_U}

\* AssessorParcelNumber::new(arg)
apply_AssessorParcelNumber_new ==
    Answer("AssessorParcelNumber::new", AssessorParcelNumber_new(call.arg))

\* AssessorParcelNumber::new on the canonical value of an APN just built
\* (as find and find_for_apn do with the stored apn)
apply_AssessorParcelNumber_new_again ==
    /\ call.fn = "AssessorParcelNumber::new"
    /\ call.done
    /\ call.result.ok
    /\ call' = [fn |-> "AssessorParcelNumber::new again",
                arg |-> call.result.value,
                done |-> TRUE,
                result |-> AssessorParcelNumber_new(call.result.value)]
    /\ UNCHANGED ingestion_vars


(***************************************************************************)
(* The handling of one raw APN on the two ingestion paths: the row's       *)
(* validate(), then extract_apn, as the loaders call them.                 *)
(***************************************************************************)
\* the raw apn texts of the rows: the texts of ApnInputs, and those after seven letters
RawApnInputs ==
    ApnInputs \cup {<<"A", "A", "A", "A", "A", "A", "A">> \o s : s \in Strings(ApnAlphabet, MaxApnLen)}

\* property_loader: ingress.validate(), then try_into up to extract_apn
CsvProperty_apn_handling(apn) ==
    LET row == CsvPropertyRow(TRUE, apn, Text_Elm, Zip_75075, Text_Duplex) IN
    IF ~CsvProperty_validate(row)
    THEN [stage |-> "validate", apn |-> <<>>, error |-> "apn"]
    ELSE LET extracted == CsvProperty_extract_apn(row) IN
         IF ~extracted.ok
         THEN [stage |-> "extract_apn", apn |-> <<>>, error |-> extracted.error]
         ELSE [stage |-> "ok", apn |-> extracted.value, error |-> ""]

\* propensity_loader, for a row with a score: ingress.validate(), then try_into up to extract_apn
CsvPropertyPropensityScore_apn_handling(apn) ==
    LET row == CsvPropensityRow(TRUE, apn, Some(Zip_75075), Some(500)) IN
    IF ~CsvPropertyPropensityScore_validate(row)
    THEN [stage |-> "validate", apn |-> <<>>, error |-> "apn"]
    ELSE LET extracted == CsvPropertyPropensityScore_extract_apn(row) IN
         IF ~extracted.ok
         THEN [stage |-> "extract_apn", apn |-> <<>>, error |-> extracted.error]
         ELSE [stage |-> "ok", apn |-> extracted.value, error |-> ""]

\* the raw apn taken through both paths
apply_apn_handling ==
    Answer("apn handling", [property   |-> CsvProperty_apn_handling(call.arg),
                            propensity |-> CsvPropertyPropensityScore_apn_handling(call.arg)])

(***************************************************************************)
(* LandUseType::try_from on its own.                                       *)
(***************************************************************************)
\* the labels classified: one or more per category, in several spellings;
\* labels no category matches; labels two categories match, the one of
\* lower priority first or last in the text
LandUseLabels ==
    {
      <<"C", "o", "n", "d", "o", "m", "i", "n", "i", "u", "m", " ", "U", "n", "i", "t">>,
      <<"D", "u", "p", "l", "e", "x">>,
      <<"M", "o", "b", "i", "l", "e", " ", "H", "o", "m", "e">>,
      <<"M", "a", "n", "u", "f", "a", "c", "t", "u", "r", "e", "d", " ", "H", "o", "m", "e">>,
      <<"M", "u", "l", "t", "i", "-", "F", "a", "m", "i", "l", "y", " ", "D", "w", "e", "l", "l", "i", "n", "g">>,
      <<"M", "u", "l", "t", "i", " ", "R", "e", "s", "i", "d", "e", "n", "t", "i", "a", "l">>,
      <<"P", "l", "a", "n", "n", "e", "d", " ", "U", "n", "i", "t", " ", "D", "e", "v", "e", "l", "o", "p", "m", "e", "n", "t">>,
      <<"P", "l", "a", "n", "n", "e", "d", " ", "D", "e", "v", "e", "l", "o", "p", "m", "e", "n", "t">>,
      <<"Q", "u", "a", "d", "r", "u", "p", "l", "e", "x">>,
      <<"R", "u", "r", "a", "l", " ", "R", "e", "s", "i", "d", "e", "n", "c", "e">>,
      <<"A", "g", "r", "i", "c", "u", "l", "t", "u", "r", "a", "l", " ", "R", "e", "s", "i", "d", "e", "n", "c", "e">>,
      <<"S", "i", "n", "g", "l", "e", " ", "F", "a", "m", "i", "l", "y", " ", "R", "e", "s", "i", "d", "e", "n", "t", "i", "a", "l">>,
      <<"s", "i", "n", "g", "l", "e", " ", "r", "e", "s", "i", "d", "e", "n", "t", "i", "a", "l">>,
      <<"S", "I", "N", "G", "L", "E", " ", "F", "A", "M", "I", "L", "Y", " ", "R", "E", "S", "I", "D", "E", "N", "T", "I", "A", "L">>,
      <<"T", "o", "w", "n", "h", "o", "u", "s", "e">>,
      <<"T", "r", "i", "p", "l", "e", "x">>,
      <<"V", "a", "c", "a", "t", "i", "o", "n", " ", "R", "e", "s", "i", "d", "e", "n", "c", "e">>,
      <<"T", "r", "e", "e", "h", "o", "u", "s", "e">>,
      <<>>,
      <<"R", "e", "s", "i", "d", "e", "n", "t", "i", "a", "l">>,
      <<"D", "u", "p", " ", "l", "e", "x">>,
      <<"a", " ", "D", "u", "p", "l", "e", "x", " ", "b">>,
      <<"S", "i", "n", "g", "l", "e", "F", "a", "m", "i", "l", "y", "R", "e", "s", "i", "d", "e", "n", "t", "i", "a", "l">>,
      <<"S", "i", "n", "g", "l", "e", " ", " ", "F", "a", "m", "i", "l", "y", "\t", "R", "e", "s", "i", "d", "e", "n", "t", "i", "a", "l">>,
      <<"D", "u", "p", "l", "e", "x", " ", "T", "o", "w", "n", "h", "o", "u", "s", "e">>,
      <<"t", "o", "w", "n", "h", "o", "u", "s", "e", " ", "d", "u", "p", "l", "e", "x">>,
      <<"V", "a", "c", "a", "t", "i", "o", "n", " ", "R", "e", "s", "i", "d", "e", "n", "c", "e", ",", " ", "C", "o", "n", "d", "o", "m", "i", "n", "i", "u", "m", " ", "U", "n", "i", "t">>,
      <<"t", "r", "i", "p", "l", "e", "x", " ", "q", "u", "a", "d", "r", "u", "p", "l", "e", "x">>,
      <<"s", "i", "n", "g", "l", "e", " ", "r", "e", "s", "i", "d", "e", "n", "t", "i", "a", "l", " ", "t", "r", "i", "p", "l", "e", "x">> }

\* a text in another letter case: capitals, small letters, or each letter swapped
Recase(how, s) ==
    [i \in DOMAIN s |->
        CASE how = "upper" -> ToUpper(s[i])
          [] how = "lower" -> ToLower(s[i])
          [] how = "swap" -> IF ToLower(s[i]) = s[i] THEN ToUpper(s[i]) ELSE ToLower(s[i])]

LetterCases == {"upper", "lower", "swap"}

\* LandUseType::try_from(arg)
apply_LandUseType_try_from ==
    Answer("LandUseType::try_from", LandUseType_try_from(call.arg))

\* LandUseType::try_from on another spelling of the label just classified
apply_LandUseType_try_from_recased ==
    /\ call.fn = "LandUseType::try_from"
    /\ call.done
    /\ \E how \in LetterCases :
           LET label == Recase(how, call.arg) IN
           call' = [fn |-> "LandUseType::try_from recased",
                    arg |-> label,
                    done |-> TRUE,
                    result |-> [of |-> call.result, recased |-> LandUseType_try_from(label)]]
    /\ UNCHANGED ingestion_vars

(***************************************************************************)
(* The Address constructors and Display on their own.                      *)
(***************************************************************************)
\* the components test_address_display builds its address from
test_address_display ==
    [number    |-> <<"3", "1", "1", "2">>,
     name      |-> <<"B", "o", "n", "n", "i", "e", " ", "B", "r", "o", "o", "k">>,
     suffix    |-> <<"L", "n">>,
     prefix    |-> Some(<<"n">>),
     postdir   |-> None,
     secondary |-> Some([designator |-> <<"U", "n", "i", "t">>, number |-> <<"7", "A">>]),
     city      |-> <<"P", "l", "a", "n", "o">>,
     state     |-> <<"T", "x">>,
     zip       |-> Zip_75075]

\* the components an address is built from: with and without each optional
\* part, a street number with and without a letter
AddressInputs ==
    [number    : {test_address_display.number, <<"1", "2", "b">>},
     name      : {test_address_display.name, Text_Elm},
     suffix    : {test_address_display.suffix},
     prefix    : {None, test_address_display.prefix},
     postdir   : {None, Some(<<"s", "w">>)},
     secondary : {None, test_address_display.secondary},
     city      : {test_address_display.city},
     state     : {test_address_display.state},
     zip       : {test_address_display.zip}]

\* the same components in another letter case
Recased(how, in) ==
    [number    |-> Recase(how, in.number),
     name      |-> Recase(how, in.name),
     suffix    |-> Recase(how, in.suffix),
     prefix    |-> IF IsSome(in.prefix) THEN Some(Recase(how, in.prefix[1])) ELSE None,
     postdir   |-> IF IsSome(in.postdir) THEN Some(Recase(how, in.postdir[1])) ELSE None,
     secondary |-> IF IsSome(in.secondary)
                   THEN Some([designator |-> Recase(how, in.secondary[1].designator),
                              number |-> Recase(how, in.secondary[1].number)])
                   ELSE None,
     city      |-> Recase(how, in.city),
     state     |-> Recase(how, in.state),
     zip       |-> in.zip]

\* the Address built from the components, as CsvProperty::extract_address
\* and the tests build it, and its display form
BuildAddress(in) ==
    LET address ==
            Address_new_in_usa(
                AddressLine_new(in.number, in.name, in.suffix,
                                StreetDirection_new(in.prefix, in.postdir)),
                IF IsSome(in.secondary)
                THEN Some(SecondaryAddressLine_new(in.secondary[1].designator,
                                                   in.secondary[1].number))
                ELSE None,
                City_new(in.city),
                StateOrRegion_new(in.state),
                ZipOrPostalCode_new(in.zip))
    IN  [address |-> address, display |-> Address_fmt(address)]

\* Address::new_in_usa on the components of arg
apply_Address_new_in_usa ==
    Answer("Address::new_in_usa", BuildAddress(call.arg))

\* the same on another spelling of the components just used
apply_Address_new_in_usa_recased ==
    /\ call.fn = "Address::new_in_usa"
    /\ call.done
    /\ \E how \in LetterCases :
           LET in == Recased(how, call.arg) IN
           call' = [fn |-> "Address::new_in_usa recased",
                    arg |-> in,
                    done |-> TRUE,
                    result |-> [of |-> call.result, recased |-> BuildAddress(in)]]
    /\ UNCHANGED ingestion_vars

(***************************************************************************)
(* The repositories and the read API on a store that loader runs have      *)
(* filled: each save is the INSERT of one record a translator produced,    *)
(* made as the loaders make it, after the existence check found no record  *)
(* of the APN.                                                             *)
(***************************************************************************)
\* the most records a table of this store holds
MaxStored == 2

\* the parcels of the stored records
StoredApns == {Apn_123_4567, Apn_7654321, Apn_7654321_U}

\* the Property records saved: translated from rows of three parcels
StoredProperties ==
    {CsvProperty_try_into(CsvPropertyRow(TRUE, apn, Text_Elm, Zip_75075, Text_Duplex)).value :
         apn \in StoredApns}

\* the PropertyPropensityScore records saved: translated from rows of the
\* three parcels, two postal codes and three scores
StoredScores ==
    {CsvPropertyPropensityScore_try_into(CsvPropensityRow(TRUE, apn, Some(zip), Some(score))).value[1] :
         apn \in StoredApns, zip \in {Zip_75075, Zip_75076}, score \in {10, 500, 40000}}

\* PropertyRecordRepository::save of one record, committed
save_property ==
    \E rec \in StoredProperties :
        /\ Len(properties) < MaxStored
        /\ \A i \in DOMAIN properties : properties[i].apn # rec.apn
        /\ properties' = PropertyRecordRepository_save(properties, rec)
        /\ UNCHANGED <<propensities, call, storage_failed, kind, pc, rows, record, quality,
                       skipped_records, nr_valid_records, nr_saved_records, outcome>>

\* PropertyPropensityScoreRepository::save of one record, committed
save_propensity ==
    \E rec \in StoredScores :
        /\ Len(propensities) < MaxStored
        /\ \A i \in DOMAIN propensities : propensities[i].apn # rec.apn
        /\ propensities' = PropertyPropensityScoreRepository_save(propensities, rec)
        /\ UNCHANGED <<properties, call, storage_failed, kind, pc, rows, record, quality,
                       skipped_records, nr_valid_records, nr_saved_records, outcome>>

NextStore ==
    \/ save_property
    \/ save_propensity
    \/ propensity_search

SpecStore == Init /\ [][NextStore]_vars

(***************************************************************************)
(* The summary of a run: QualityMeasure's Debug output.  A line of the     *)
(* output is the number it prints and the words that follow it.            *)
(***************************************************************************)
\* fmt::Debug for QualityMeasure: nr_issues
nr_issues(q) ==
    Len(q.deserialization_failures) + Len(q.validation_failures)
        + Len(q.save_failures) + Len(q.missing_scores)

\* one line of the output, written when the list is not empty
QualityLine(list, words) ==
    IF list # <<>> THEN <<[count |-> Len(list), words |-> words]>> ELSE <<>>

\* fmt::Debug for QualityMeasure of the propensity loader
QualityMeasure_fmt(q) ==
    IF 0 < nr_issues(q)
    THEN <<[count |-> nr_issues(q), words |-> "issues found:"]>>
             \o QualityLine(q.deserialization_failures, "deserialization failures")
             \o QualityLine(q.validation_failures, "validation failures")
             \o QualityLine(q.save_failures, "save failures")
             \o QualityLine(q.missing_scores, "missing scores")
             \o QualityLine(q.not_in_core_properties, "not in core properties (but still loaded)")
    ELSE <<[count |-> nr_issues(q), words |-> "issues found"]>>

(***************************************************************************)
(* count_nr_records.  A usize has 64 bits; it is kept as four limbs of 16  *)
(* bits, the least significant first.                                      *)
(***************************************************************************)
\* the files passed: their numbers of lines are 0..MaxLines
MaxLines == 3

\* a number below 2^31 as a usize
usize(n) == [i \in 1..4 |-> IF i = 1 THEN n % 65536 ELSE IF i = 2 THEN n \div 65536 ELSE 0]

\* the borrow out of limb i of a - b
usize_borrow(a, b) ==
    LET borrow[i \in 0..4] ==
            IF i = 0 THEN 0
            ELSE IF a[i] - b[i] - borrow[i - 1] < 0 THEN 1 ELSE 0
    IN  borrow

\* a - b on usize, modulo 2^64
usize_wrapping_sub(a, b) ==
    [i \in 1..4 |-> (a[i] - b[i] - usize_borrow(a, b)[i - 1]) % 65536]

\* a - b on usize as the build computes it: with overflow checks (the dev
\* profile) an underflow panics, without them (the release profile) it wraps
usize_sub(a, b) ==
    IF usize_borrow(a, b)[4] = 1
    THEN {[tag |-> "panic", value |-> usize(0)],
          [tag |-> "ok", value |-> usize_wrapping_sub(a, b)]}
    ELSE {[tag |-> "ok", value |-> usize_wrapping_sub(a, b)]}

\* count_nr_records on a file of `lines` lines: File::open(path)?, then
\* reader.lines().count() - 1
count_nr_records(file) ==
    IF ~file.readable
    THEN {[tag |-> "err", value |-> usize(0)]}
    ELSE usize_sub(usize(file.lines), usize(1))

\* the files passed to count_nr_records
FileInputs == [lines : 0..MaxLines, readable : BOOLEAN]

\* count_nr_records on the file of arg
apply_count_nr_records ==
    /\ call.fn = "count_nr_records"
    /\ \E result \in count_nr_records(call.arg) : Answer("count_nr_records", result)

\* the calls the model makes on the value objects
DomainCalls ==
    {Pending("PropensityScore::new", s) : s \in ScoreInputs}
        \cup {Pending("ZipOrPostalCode::new", s) : s \in ZipInputs}
        \cup {Pending("AssessorParcelNumber::new", s) : s \in ApnInputs}
        \cup {Pending("apn handling", s) : s \in RawApnInputs}
        \cup {Pending("LandUseType::try_from", s) : s \in LandUseLabels}
        \cup {Pending("Address::new_in_usa", s) : s \in AddressInputs}
        \cup {Pending("count_nr_records", s) : s \in FileInputs}

InitDomain ==
    /\ InitIngestion
    /\ call \in DomainCalls

NextDomain ==
    \/ apply_PropensityScore_new
    \/ apply_ZipOrPostalCode_new
    \/ apply_AssessorParcelNumber_new
    \/ apply_AssessorParcelNumber_new_again
    \/ apply_apn_handling
    \/ apply_LandUseType_try_from
    \/ apply_LandUseType_try_from_recased
    \/ apply_Address_new_in_usa
    \/ apply_Address_new_in_usa_recased
    \/ apply_count_nr_records

SpecDomain == InitDomain /\ [][NextDomain]_vars


(***************************************************************************)
(* Properties.                                                             *)
(***************************************************************************)
Kinds == {"property", "propensity"}

Table(k) == IF k = "property" THEN properties ELSE propensities

\* the rows of `table` stored under apn
RecordsFor(table, apn) == {i \in DOMAIN table : table[i].apn = apn}

\* a row that parses, passes validation and translates to a domain record
ValidRow(k, row) ==
    IF k = "property"
    THEN row.parsed /\ CsvProperty_validate(row) /\ CsvProperty_try_into(row).ok
    ELSE /\ row.parsed
         /\ IsSome(row.propensity_score)
         /\ CsvPropertyPropensityScore_validate(row)
         /\ CsvPropertyPropensityScore_try_into(row).ok

Canonical(row) == AssessorParcelNumber_new(row.apn).value

\* both runs have ended in their summary, of the same kind and over the same one-row file
SameRowTwice(k) ==
    /\ kind[1] = k /\ kind[2] = k
    /\ pc[1] = "done" /\ pc[2] = "done"
    /\ Len(rows[1]) = 1 /\ rows[2] = rows[1]
    /\ ValidRow(k, rows[1][1])
    /\ ~storage_failed

\* C1: ingesting the same valid row twice against an empty store, with no
\* storage errors: the first run ends the row in saved, the second run ends it
\* in skipped-duplicate, and the store holds exactly one record for that APN.
C1_SameRowTwiceIsSavedThenDuplicate ==
    \A k \in Kinds :
        SameRowTwice(k) =>
            /\ outcome[1] = <<"saved">>
            /\ outcome[2] = <<"skipped-duplicate">>
            /\ Cardinality(RecordsFor(Table(k), Canonical(rows[1][1]))) = 1

\* The same for the rows whose canonical APN is 14 bytes long (no multi-byte character).
C1_SameAsciiRowTwice ==
    \A k \in Kinds :
        (SameRowTwice(k) /\ ByteLen(Canonical(rows[1][1])) = APN_LENGTH) =>
            /\ outcome[1] = <<"saved">>
            /\ outcome[2] = <<"skipped-duplicate">>
            /\ Cardinality(RecordsFor(Table(k), Canonical(rows[1][1]))) = 1

\* C2: in sequential ingestion each table holds at most one record per
\* canonical APN, and a run that stands between the existence check and the
\* save holds an APN the table has no record of.
C2_AtMostOneRecordPerApn ==
    /\ \A k \in Kinds : \A i, j \in DOMAIN Table(k) :
           Table(k)[i].apn = Table(k)[j].apn => i = j
    /\ \A r \in Runs :
           pc[r] \in {"assess", "save"} => RecordsFor(Table(kind[r]), record[r].apn) = {}

\* two rows of one file spell the same parcel differently: the first is saved,
\* the second skipped as a duplicate
C2_Witness ==
    \E r \in Runs :
        /\ Len(rows[r]) = 2
        /\ rows[r][1].apn # rows[r][2].apn
        /\ outcome[r] = <<"saved", "skipped-duplicate">>
        /\ Len(Table(kind[r])) = 1
(***************************************************************************)
(* The per-row state machine (spec section 4) against the two loops.       *)
(***************************************************************************)
Categories ==
    {"deserialization_failures", "validation_failures", "save_failures",
     "missing_scores", "not_in_core_properties"}

\* Row i of run r is recorded in list `field` of the quality report.  The
\* first three lists hold row indices; save_failures holds the raw rows and
\* not_in_core_properties the records, which only rows that reached do_save
\* can have added.
RecordedIn(r, i, field) ==
    LET list == quality[r][field] IN
    CASE field = "missing_scores" -> i \in Range(list)
      [] field \in {"deserialization_failures", "validation_failures"} ->
             \E j \in DOMAIN list : list[j].index = i
      [] field = "save_failures" ->
             /\ outcome[r][i] = "skipped-save-failure"
             /\ \E j \in DOMAIN list : list[j].csv_record = rows[r][i]
      [] field = "not_in_core_properties" ->
             /\ kind[r] = "propensity"
             /\ outcome[r][i] \in {"saved", "skipped-save-failure"}
             /\ CsvPropertyPropensityScore_try_into(rows[r][i]).value[1] \in Range(list)

CategoriesOf(r, i) == {f \in Categories : RecordedIn(r, i, f)}

TerminalStates ==
    {"saved", "skipped-duplicate", "skipped-missing-score",
     "skipped-deserialization-failure", "skipped-validation-failure",
     "skipped-save-failure"}

\* the branch of a lookup error, which the specification files under
\* skipped-deserialization-failure
AsTerminalState(label) ==
    IF label = "skipped-lookup-error" THEN "skipped-deserialization-failure" ELSE label

\* C3: every row that ended did so in one of the six terminal states, is
\* either saved or in the skipped list but never both, and is recorded in at
\* most one list of the quality report.
C3_OneTerminalStateOneCategory ==
    \A r \in Runs : \A i \in DOMAIN outcome[r] :
        /\ AsTerminalState(outcome[r][i]) \in TerminalStates
        /\ (outcome[r][i] = "saved") # (i \in Range(skipped_records[r]))
        /\ Cardinality(CategoriesOf(r, i)) <= 1

\* the part of C3 the loops do keep: one terminal state per ended row, saved
\* or skipped, and the failure lists are pairwise disjoint
C3_FailureListsDisjoint ==
    \A r \in Runs : \A i \in DOMAIN outcome[r] :
        /\ AsTerminalState(outcome[r][i]) \in TerminalStates
        /\ (outcome[r][i] = "saved") # (i \in Range(skipped_records[r]))
        /\ Cardinality(CategoriesOf(r, i) \ {"not_in_core_properties"}) <= 1

ListedErrors ==
    {"skipped-deserialization-failure", "skipped-validation-failure",
     "skipped-lookup-error", "skipped-save-failure"}

\* run r ends a row in this step
RowEnds(r) == Len(outcome'[r]) = Len(outcome[r]) + 1

C5_CommitFailureSkipsTheRow ==
    [][\A r \in Runs :
          (property_do_save_on(r, "commit failed") \/ propensity_do_save_on(r, "commit failed"))
              => /\ pc'[r] = "loop"
                 /\ skipped_records'[r] = Append(skipped_records[r], idx(r))
                 /\ RowEnds(r)]_vars

(***************************************************************************)
(* The arms of save_record.                                                *)
(***************************************************************************)
\* the record PropertyPropensityScoreRepository::save stores for rec
StoredScore(table, rec) ==
    [id |-> Len(table) + 1, apn |-> rec.apn,
     zip_or_postal_code |-> rec.zip_or_postal_code, score |-> as_i16(rec.score)]

\* C6: when the assessment of a propensity record finds no property for its
\* APN, the record is appended to not_in_core_properties and the run goes on
\* to do_save with that record, the row neither ended nor skipped; and a
\* do_save the store accepts appends the record to the propensities table
\* and ends the row as saved.
C6_MissingPropertyDoesNotBlockSave ==
    [][\A r \in Runs :
            /\ \A result \in PropertyRecordRepository_find(record[r].apn, properties) :
                   (do_assess_for_property_on(r, result) /\ RecordsFor(properties, record[r].apn) = {})
                       => /\ quality'[r].not_in_core_properties =
                                 Append(quality[r].not_in_core_properties, record[r])
                          /\ pc'[r] = "save"
                          /\ record'[r] = record[r]
                          /\ outcome'[r] = outcome[r]
                          /\ skipped_records'[r] = skipped_records[r]
            /\ propensity_do_save_on(r, "saved")
                   => /\ propensities' = Append(propensities, StoredScore(propensities, record[r]))
                      /\ outcome'[r] = Append(outcome[r], "saved")
                      /\ nr_saved_records'[r] = nr_saved_records[r] + 1]_vars

C6_Witness ==
    \E r \in Runs : \E i \in DOMAIN outcome[r] :
        /\ kind[r] = "propensity"
        /\ outcome[r][i] = "saved"
        /\ RecordedIn(r, i, "not_in_core_properties")
        /\ RecordsFor(properties, Canonical(rows[r][i])) = {}
        /\ RecordsFor(propensities, Canonical(rows[r][i])) # {}

\* C7: a step of the propensity loop that reads a parsed row without a score
\* ends the row as skipped-missing-score: the index goes to missing_scores
\* and to the skipped list, nothing else of the report changes, the row is
\* not counted as valid, no record is built from it and no table changes.
C7_MissingScoreIsSkippedFirst ==
    [][\A r \in Runs : \A row \in PropensityRows :
          ( /\ pc[r] = "loop"
            /\ kind[r] = "propensity"
            /\ rows'[r] = Append(rows[r], row)
            /\ row.parsed
            /\ row.propensity_score = None )
              => /\ outcome'[r] = Append(outcome[r], "skipped-missing-score")
                 /\ quality'[r] = Push(quality[r], "missing_scores", Len(rows'[r]))
                 /\ skipped_records'[r] = Append(skipped_records[r], Len(rows'[r]))
                 /\ nr_valid_records'[r] = nr_valid_records[r]
                 /\ record'[r] = NoRecord
                 /\ pc'[r] = "loop"
                 /\ UNCHANGED <<properties, propensities>>]_vars

\* a row without a score whose APN would have failed validation and translation
C7_Witness ==
    \E r \in Runs : \E i \in DOMAIN outcome[r] :
        /\ kind[r] = "propensity"
        /\ rows[r][i].parsed
        /\ rows[r][i].propensity_score = None
        /\ ~RE_APN_is_match(rows[r][i].apn)
        /\ outcome[r][i] = "skipped-missing-score"
        /\ RecordedIn(r, i, "missing_scores")

\* C8: a save_record whose existence check returns a stored record ends the
\* row as skipped-duplicate with both tables and the saved counter as they
\* were, and no step ever changes a record that is stored.
C8_DuplicateLeavesStoreUnchanged ==
    [][/\ \A r \in Runs :
            /\ \A found \in PropertyRecordRepository_find(record[r].apn, properties) :
                   (found.tag = "some" /\ property_save_record_on(r, found))
                       => /\ outcome'[r] = Append(outcome[r], "skipped-duplicate")
                          /\ skipped_records'[r] = Append(skipped_records[r], idx(r))
                          /\ nr_saved_records'[r] = nr_saved_records[r]
                          /\ pc'[r] = "loop"
                          /\ UNCHANGED <<properties, propensities>>
            /\ \A found \in PropertyPropensityScoreRepository_find_for_apn(record[r].apn, propensities) :
                   (found.tag = "some" /\ propensity_save_record_on(r, found))
                       => /\ outcome'[r] = Append(outcome[r], "skipped-duplicate")
                          /\ skipped_records'[r] = Append(skipped_records[r], idx(r))
                          /\ nr_saved_records'[r] = nr_saved_records[r]
                          /\ pc'[r] = "loop"
                          /\ UNCHANGED <<properties, propensities>>
       /\ \A i \in DOMAIN properties : i \in DOMAIN properties' /\ properties'[i] = properties[i]
       /\ \A i \in DOMAIN propensities : i \in DOMAIN propensities' /\ propensities'[i] = propensities[i]]_vars

\* a duplicate whose postal code is not the stored one
C8_Witness ==
    \E r \in Runs : \E i \in DOMAIN outcome[r] :
        /\ outcome[r][i] = "skipped-duplicate"
        /\ Len(Table(kind[r])) = 1
        /\ Table(kind[r])[1].apn = Canonical(rows[r][i])
        /\ Table(kind[r])[1].zip_or_postal_code # rows[r][i].zip_or_postal_code

\* C9: a do_save whose INSERT returns an error ends the row as
\* skipped-save-failure: the raw CSV row is appended to save_failures, the
\* index to the skipped list, the saved counter stays and no table changes.
C9_SaveFailureIsCharted ==
    [][\A r \in Runs :
          (property_do_save_on(r, "insert failed") \/ propensity_do_save_on(r, "insert failed"))
              => /\ outcome'[r] = Append(outcome[r], "skipped-save-failure")
                 /\ quality'[r].save_failures =
                        Append(quality[r].save_failures,
                               [csv_record |-> rows[r][idx(r)], error |-> "save"])
                 /\ skipped_records'[r] = Append(skipped_records[r], idx(r))
                 /\ nr_saved_records'[r] = nr_saved_records[r]
                 /\ pc'[r] = "loop"
                 /\ UNCHANGED <<properties, propensities>>]_vars

C9_Witness ==
    \E r \in Runs : \E i \in DOMAIN outcome[r] :
        /\ outcome[r][i] = "skipped-save-failure"
        /\ RecordedIn(r, i, "save_failures")
        /\ i \in Range(skipped_records[r])
        /\ nr_saved_records[r] = 0
        /\ RecordsFor(Table(kind[r]), Canonical(rows[r][i])) = {}

(***************************************************************************)
(* Two runs at the same time.                                              *)
(***************************************************************************)
\* C10: the existence check and the save are two steps: a do_save the store
\* accepts appends a record with the run's APN to the table whatever the
\* table holds by then, so with two concurrent runs the properties table
\* (and likewise the propensities table) can hold two records of one APN.
C10_SaveDoesNotRecheck ==
    [][\A r \in Runs :
          /\ property_do_save_on(r, "saved")
                 => /\ Len(properties') = Len(properties) + 1
                    /\ properties'[Len(properties')].apn = record[r].apn
          /\ propensity_do_save_on(r, "saved")
                 => /\ Len(propensities') = Len(propensities) + 1
                    /\ propensities'[Len(propensities')].apn = record[r].apn]_vars

\* both runs saw the APN absent, both saved: two records of one APN
C10_Witness ==
    /\ Len(properties) = 2
    /\ properties[1].apn = properties[2].apn
    /\ outcome[1] = <<"saved">>
    /\ outcome[2] = <<"saved">>

(***************************************************************************)
(* Lifecycle of the stored records.                                        *)
(***************************************************************************)
\* C11: across every step of ingestion and search the two tables only grow
\* at their end: no stored record is removed and each keeps the content it
\* was saved with; a search changes neither table.
C11_StoredRecordsAreNeverChangedOrDeleted ==
    [][/\ Len(properties') >= Len(properties)
       /\ SubSeq(properties', 1, Len(properties)) = properties
       /\ Len(propensities') >= Len(propensities)
       /\ SubSeq(propensities', 1, Len(propensities)) = propensities
       /\ (call' # call) => UNCHANGED <<properties, propensities>>]_vars

\* both tables hold a record, and a search has read them
C11_Witness ==
    /\ Len(properties) = 1
    /\ Len(propensities) = 1
    /\ call.fn = "propensity_search"
    /\ call.result.status = 200
    /\ Len(call.result.body) = 1

(***************************************************************************)
(* The value objects.                                                      *)
(***************************************************************************)
Answered(fn) == call.fn = fn /\ call.done

\* C12: PropensityScore::new(s) succeeds exactly for 1 <= s <= 950, and a
\* score it returns holds s.
C12_ScoreAcceptedFrom1To950 ==
    Answered("PropensityScore::new")
        => /\ call.result.ok <=> (1 <= call.arg /\ call.arg <= 950)
           /\ call.result.ok => call.result.score = call.arg

\* what the constructor does keep: every u16 is accepted and held as given
C12_EveryScoreIsAccepted ==
    Answered("PropensityScore::new")
        => /\ call.result.ok
           /\ call.result.score = call.arg

\* C13: ZipOrPostalCode::new(s) succeeds exactly when s is five ASCII digits,
\* and the code it returns displays as s.
C13_ZipIsFiveAsciiDigits ==
    Answered("ZipOrPostalCode::new")
        => /\ call.result.ok <=>
                  (Len(call.arg) = 5 /\ \A i \in DOMAIN call.arg : call.arg[i] \in AsciiDigits)
           /\ call.result.ok => ZipOrPostalCode_fmt(call.result) = call.arg

\* what the constructor does keep: five characters of class \d, displayed as given
C13_ZipIsFiveDigitCharacters ==
    Answered("ZipOrPostalCode::new")
        => /\ call.result.ok <=>
                  (Len(call.arg) = 5 /\ \A i \in DOMAIN call.arg : IsDigit(call.arg[i]))
           /\ call.result.ok => ZipOrPostalCode_fmt(call.result) = call.arg

\* C14: an APN built from the canonical value of an accepted APN is accepted
\* and has the same canonical value.
C14_CanonicalizationIsIdempotent ==
    Answered("AssessorParcelNumber::new again")
        => /\ call.result.ok
           /\ call.result.value = call.arg

\* what does hold: a canonical value of 14 bytes is a fixed point
C14_FixedPointWhen14Bytes ==
    (Answered("AssessorParcelNumber::new again") /\ ByteLen(call.arg) = APN_LENGTH)
        => /\ call.result.ok
           /\ call.result.value = call.arg

\* C15: a constructed APN is the hyphen-stripped input left-padded with
\* zeros to exactly 14 characters, all of them digits and none a hyphen; an
\* input whose hyphen-stripped form is longer than 14 characters is rejected
\* with an error on apn.
C15_CanonicalIs14Digits ==
    Answered("AssessorParcelNumber::new")
        => /\ call.result.ok
                  => /\ Len(call.result.value) = 14
                     /\ \A i \in DOMAIN call.result.value :
                            IsDigit(call.result.value[i]) /\ call.result.value[i] # "-"
                     /\ \E n \in 0..14 :
                            call.result.value = [i \in 1..n |-> "0"] \o RemoveHyphens(call.arg)
           /\ Len(RemoveHyphens(call.arg)) > 14
                  => ~call.result.ok /\ call.result.error \in {"format", "length"}

\* what does hold: for an input of one-byte characters, 14 characters
\* without a hyphen, the stripped input padded
C15_AsciiCanonicalIs14Characters ==
    Answered("AssessorParcelNumber::new")
        => /\ (call.result.ok /\ ByteLen(call.arg) = Len(call.arg))
                  => /\ Len(call.result.value) = 14
                     /\ \A i \in DOMAIN call.result.value : call.result.value[i] # "-"
                     /\ \E n \in 0..14 :
                            call.result.value = [i \in 1..n |-> "0"] \o RemoveHyphens(call.arg)
           /\ Len(RemoveHyphens(call.arg)) > 14
                  => ~call.result.ok /\ call.result.error \in {"format", "length"}


C16_BothPathsHandleTheApnAlike ==
    Answered("apn handling") => call.result.property = call.result.propensity

\* and a stored property whose canonical APN is 14 bytes long is matched
C16_SameAsciiRawApnMatchesOnTheKey ==
    [][\A r \in Runs :
           \A result \in PropertyRecordRepository_find(record[r].apn, properties) :
               ( /\ do_assess_for_property_on(r, result)
                 /\ result.cause # "query"
                 /\ ByteLen(record[r].apn) = APN_LENGTH
                 /\ \E i \in DOMAIN properties : properties[i].apn = record[r].apn )
                   => quality'[r].not_in_core_properties = quality[r].not_in_core_properties]_vars

\* C17: LandUseType classification returns the first category, in the order
\* CondominiumUnit, Duplex, MobileOrManufacturedHome, MultiFamilyDwellings,
\* PlannedUnitDevelopment, Quadruplex, RuralOrAgriculturalResidence,
\* SingleFamilyResidential, Townhouse, Triplex, VacationResidence, whose
\* pattern set matches a substring of the label whatever the letter case; a
\* label no category matches fails with the original text and no category;
\* and a label spelled in another letter case gets the same classification.
C17_FirstMatchingCategoryInPriorityOrder ==
    /\ Answered("LandUseType::try_from") =>
           LET matching == {i \in DOMAIN LandUseTypes :
                               RegexSet_is_match(TYPE_PATTERNS[i][2], call.arg)}
           IN  /\ \A i \in DOMAIN LandUseTypes : TYPE_PATTERNS[i][1] = LandUseTypes[i]
               /\ matching = {} => /\ ~call.result.ok
                                   /\ call.result.error = call.arg
                                   /\ call.result.value \notin Range(LandUseTypes)
               /\ matching # {} => /\ call.result.ok
                                   /\ \E i \in matching :
                                          /\ call.result.value = LandUseTypes[i]
                                          /\ \A j \in matching : i <= j
    /\ Answered("LandUseType::try_from recased") =>
           /\ call.result.recased.ok = call.result.of.ok
           /\ call.result.recased.value = call.result.of.value

\* "townhouse duplex" is a Duplex although townhouse comes first in the text,
\* and so is it in capitals
C17_Witness ==
    /\ Answered("LandUseType::try_from recased")
    /\ call.arg = to_uppercase(<<"t", "o", "w", "n", "h", "o", "u", "s", "e", " ", "d", "u", "p", "l", "e", "x">>)
    /\ call.result.of = [ok |-> TRUE, value |-> "Duplex", error |-> <<>>]
    /\ call.result.recased = call.result.of

\* "Treehouse" is no category
C17_WitnessUnrecognized ==
    /\ Answered("LandUseType::try_from")
    /\ call.arg = Text_Treehouse
    /\ ~call.result.ok

\* no lower-case letter in the text
IsUpperCased(text) == text = to_uppercase(text)

\* C18: every free-text component of an Address built through the
\* constructors is stored upper-cased (street number, street name, street
\* suffix, direction tokens, secondary designator and number, city, state),
\* and components that differ in letter case only build equal Addresses.
C18_ComponentsAreStoredUpperCased ==
    /\ Answered("Address::new_in_usa") =>
           LET address == call.result.address IN
           /\ IsUpperCased(address.address_line.street_number)
           /\ IsUpperCased(address.address_line.street_name)
           /\ IsUpperCased(address.address_line.street_suffix)
           /\ IsUpperCased(address.address_line.street_direction.prefix)
           /\ IsUpperCased(address.address_line.street_direction.suffix)
           /\ IsSome(address.secondary_address_line) =>
                  /\ IsUpperCased(address.secondary_address_line[1].designator)
                  /\ IsUpperCased(address.secondary_address_line[1].number)
           /\ IsUpperCased(address.city)
           /\ IsUpperCased(address.state_or_region)
    /\ Answered("Address::new_in_usa recased") =>
           call.result.recased.address = call.result.of.address

\* what does hold: every component but the street number is stored
\* upper-cased, and spellings that agree on the street number build equal
\* Addresses
C18_AllButTheStreetNumberUpperCased ==
    /\ Answered("Address::new_in_usa") =>
           LET address == call.result.address IN
           /\ address.address_line.street_number = call.arg.number
           /\ IsUpperCased(address.address_line.street_name)
           /\ IsUpperCased(address.address_line.street_suffix)
           /\ IsUpperCased(address.address_line.street_direction.prefix)
           /\ IsUpperCased(address.address_line.street_direction.suffix)
           /\ IsSome(address.secondary_address_line) =>
                  /\ IsUpperCased(address.secondary_address_line[1].designator)
                  /\ IsUpperCased(address.secondary_address_line[1].number)
           /\ IsUpperCased(address.city)
           /\ IsUpperCased(address.state_or_region)
    /\ Answered("Address::new_in_usa recased") =>
           LET of == call.result.of.address
               recased == call.result.recased.address
           IN  /\ [recased EXCEPT !.address_line.street_number = of.address_line.street_number] = of
               /\ (recased.address_line.street_number = of.address_line.street_number)
                      => recased = of

\* text in brackets: present when the optional part is
Bracketed(part, text) == IF IsSome(part) THEN text ELSE <<>>

\* C19: the display form of a US Address built by the constructors is
\* "<number> [<PREFIX> ]<NAME> <SUFFIX>[ <POSTDIR>][ <DESIGNATOR> <UNIT>],
\* <CITY>, <STATE> <zip>, USA", the bracketed parts present exactly when the
\* direction prefix, the direction suffix and the secondary line are; for
\* 3112, "Bonnie Brook", "Ln", prefix "n", ("Unit", "7A"), "Plano", "Tx",
\* 75075 it is "3112 N BONNIE BROOK LN UNIT 7A, PLANO, TX 75075, USA".
C19_DisplayFormOfAnAddress ==
    Answered("Address::new_in_usa") =>
        LET in == call.arg IN
        /\ call.result.display =
               in.number \o <<" ">>
                   \o Bracketed(in.prefix, to_uppercase(in.prefix[1]) \o <<" ">>)
                   \o to_uppercase(in.name) \o <<" ">> \o to_uppercase(in.suffix)
                   \o Bracketed(in.postdir, <<" ">> \o to_uppercase(in.postdir[1]))
                   \o Bracketed(in.secondary,
                                <<" ">> \o to_uppercase(in.secondary[1].designator)
                                    \o <<" ">> \o to_uppercase(in.secondary[1].number))
                   \o <<",", " ">> \o to_uppercase(in.city)
                   \o <<",", " ">> \o to_uppercase(in.state) \o <<" ">> \o in.zip
                   \o <<",", " ", "U", "S", "A">>
        /\ in = test_address_display
               => call.result.display =
                      <<"3", "1", "1", "2", " ", "N", " ",
                        "B", "O", "N", "N", "I", "E", " ", "B", "R", "O", "O", "K", " ", "L", "N", " ",
                        "U", "N", "I", "T", " ", "7", "A", ",", " ",
                        "P", "L", "A", "N", "O", ",", " ", "T", "X", " ",
                        "7", "5", "0", "7", "5", ",", " ", "U", "S", "A">>

\* the address of the example has been built and displayed
C19_Witness ==
    /\ Answered("Address::new_in_usa")
    /\ call.arg = test_address_display
    /\ Len(call.result.display) = 52

\* an address with both directions and no secondary line has been displayed
C19_WitnessBothDirections ==
    /\ Answered("Address::new_in_usa")
    /\ IsSome(call.arg.prefix) /\ IsSome(call.arg.postdir) /\ ~IsSome(call.arg.secondary)

\* the stored propensity records a search for the postal code asks for
Eligible(parameters) ==
    {i \in DOMAIN propensities : propensities[i].zip_or_postal_code = Some(parameters.zip_code)}

LimitOf(parameters) == IF IsSome(parameters.limit) THEN parameters.limit[1] ELSE LIMIT_DEFAULT

Min(a, b) == IF a < b THEN a ELSE b

\* C20: find_address_scores_for_zip_code tolerates propensity records with no
\* matching property: a search that succeeds returns as many items as there
\* are stored propensity records of the requested postal code (up to the
\* limit), each the item of such a record, and the item of a record without
\* a property of its APN carries a null address.
C20_SearchToleratesMissingProperty ==
    [][(call' # call /\ call'.fn = "propensity_search" /\ call'.result.status = 200) =>
           LET body == call'.result.body
               eligible == Eligible(call'.arg)
           IN  /\ Len(body) = Min(LimitOf(call'.arg), Cardinality(eligible))
               /\ \A k \in DOMAIN body :
                      \E i \in eligible :
                          /\ body[k].apn = propensities[i].apn
                          /\ RecordsFor(properties, propensities[i].apn) = {}
                                 => body[k].address = None]_vars

\* what does hold: a search that succeeds returns the records of the postal
\* code that have a property of their APN, up to the limit, each with an
\* address; the others are left out
C20_SearchReturnsRecordsWithAProperty ==
    [][(call' # call /\ call'.fn = "propensity_search" /\ call'.result.status = 200) =>
           LET body == call'.result.body
               eligible == Eligible(call'.arg)
               joined == {ij \in eligible \X DOMAIN properties :
                             propensities[ij[1]].apn = properties[ij[2]].apn}
           IN  /\ Len(body) = Min(LimitOf(call'.arg), Cardinality(joined))
               /\ \A k \in DOMAIN body :
                      /\ IsSome(body[k].address)
                      /\ \E ij \in joined : body[k].apn = propensities[ij[1]].apn]_vars

(***************************************************************************)
(* The read API over a filled store, the loaders' error paths, the         *)
(* accounting of a run and its summary.                                    *)
(***************************************************************************)
\* a step in which a search is answered with success
SearchSucceeds ==
    /\ call' # call
    /\ call'.fn = "propensity_search"
    /\ call'.result.status = 200

\* the stored propensity records of the requested postal code that have a
\* property of their APN
Returnable(parameters) ==
    {i \in Eligible(parameters) : RecordsFor(properties, propensities[i].apn) # {}}

\* the score of stored record i as the search returns it
ReturnedScore(i) == as_u16(propensities[i].score)

\* C21: the result of find_address_scores_for_zip_code(postal_code, limit)
\* holds only records of that postal code, at most `limit` of them, in
\* descending order of score, and no record of the postal code (with a
\* property) that is left out has a score higher than one that is included.
C21_SearchReturnsTheTopScores ==
    [][SearchSucceeds =>
           LET body == call'.result.body
               included == {i \in Eligible(call'.arg) :
                                \E k \in DOMAIN body : body[k].apn = propensities[i].apn}
           IN  /\ \A k \in DOMAIN body :
                      \E i \in Eligible(call'.arg) :
                          /\ body[k].apn = propensities[i].apn
                          /\ body[k].propensity_score = ReturnedScore(i)
               /\ Len(body) <= LimitOf(call'.arg)
               /\ \A a, b \in DOMAIN body :
                      a < b => body[a].propensity_score >= body[b].propensity_score
               /\ \A out \in Returnable(call'.arg) \ included :
                      \A i \in included : ReturnedScore(out) <= ReturnedScore(i)]_vars

\* what does hold: the same with the scores read as the stored smallint, a
\* score above 32767 counting as the negative number it is stored as
C21_SearchReturnsTheTopStoredScores ==
    [][SearchSucceeds =>
           LET body == call'.result.body
               included == {i \in Eligible(call'.arg) :
                                \E k \in DOMAIN body : body[k].apn = propensities[i].apn}
           IN  /\ \A k \in DOMAIN body :
                      \E i \in Eligible(call'.arg) :
                          /\ body[k].apn = propensities[i].apn
                          /\ body[k].propensity_score = ReturnedScore(i)
               /\ Len(body) <= LimitOf(call'.arg)
               /\ \A a, b \in DOMAIN body :
                      a < b => as_i16(body[a].propensity_score) >= as_i16(body[b].propensity_score)
               /\ \A out \in Returnable(call'.arg) \ included :
                      \A i \in included : propensities[out].score <= propensities[i].score]_vars

\* C22: the read API maps errors by cause: a postal code that is not a
\* valid 5-digit code is answered 400 BAD_REQUEST without a query to the
\* repository; every other failure (a query error, a stored row that fails
\* re-validation) is answered 500 INTERNAL_SERVER_ERROR; and no failure is
\* answered with success.
C22_ErrorsAreMappedByCause ==
    [][\A parameters \in SearchParameters :
           LET zip_code == ZipOrPostalCode_new(parameters.zip_code)
               is_5_digit_code ==
                   /\ Len(parameters.zip_code) = 5
                   /\ \A i \in DOMAIN parameters.zip_code : parameters.zip_code[i] \in AsciiDigits
           IN  \A found \in find_address_scores_for_zip_code(zip_code, LimitOf(parameters),
                                                             propensities, properties) :
                   propensity_search_on(parameters, found) =>
                       /\ ~is_5_digit_code => call'.result.status = 400 /\ ~call'.queried
                       /\ (is_5_digit_code /\ found.tag = "err") => call'.result.status = 500
                       /\ call'.result.status = 200 => is_5_digit_code /\ found.tag = "ok"]_vars

\* what does hold: the same for the postal codes that are not five
\* characters of the class \d
C22_ErrorsAreMappedByCauseOfDigitCharacters ==
    [][\A parameters \in SearchParameters :
           LET zip_code == ZipOrPostalCode_new(parameters.zip_code)
               is_5_digit_code ==
                   /\ Len(parameters.zip_code) = 5
                   /\ \A i \in DOMAIN parameters.zip_code : IsDigit(parameters.zip_code[i])
           IN  \A found \in find_address_scores_for_zip_code(zip_code, LimitOf(parameters),
                                                             propensities, properties) :
                   propensity_search_on(parameters, found) =>
                       /\ ~is_5_digit_code => call'.result.status = 400 /\ ~call'.queried
                       /\ (is_5_digit_code /\ found.tag = "err") => call'.result.status = 500
                       /\ call'.result.status = 200 => is_5_digit_code /\ found.tag = "ok"]_vars

\* the results the existence check of run r can return
ExistenceCheckResults(r) ==
    IF kind[r] = "property"
    THEN PropertyRecordRepository_find(record[r].apn, properties)
    ELSE PropertyPropensityScoreRepository_find_for_apn(record[r].apn, propensities)

\* the step of run r in which its existence check returns `found`
ExistenceCheck(r, found) ==
    IF kind[r] = "property"
    THEN property_save_record_on(r, found)
    ELSE propensity_save_record_on(r, found)

\* C23: when the existence check of a row returns a lookup error, the row's
\* index is appended to the skipped list, the saved counter stays as it is,
\* and nothing further happens for the row: the run is back at its loop for
\* the next row (no cross-reference check, no save), both tables and the
\* quality report are unchanged.
C23_LookupErrorSkipsTheRow ==
    [][\A r \in Runs :
           \A found \in ExistenceCheckResults(r) :
               (ExistenceCheck(r, found) /\ found.tag = "err") =>
                   /\ skipped_records'[r] = Append(skipped_records[r], Len(rows[r]))
                   /\ nr_saved_records'[r] = nr_saved_records[r]
                   /\ pc'[r] = "loop"
                   /\ properties' = properties
                   /\ propensities' = propensities
                   /\ quality'[r] = quality[r]
                   /\ Len(outcome'[r]) = Len(rows[r])]_vars

\* a run whose first row ended in a lookup error has gone on to save its
\* second row
C23_Witness ==
    \E r \in Runs :
        /\ outcome[r] = <<"skipped-lookup-error", "saved">>
        /\ skipped_records[r] = <<1>>
        /\ nr_saved_records[r] = 1

\* C24: in the propensity pipeline structural validation runs before the
\* missing-score check: a parsed row that violates the structural field
\* checks ends in skipped-validation-failure, also when it has no score.
C24_ValidationPrecedesTheScoreCheck ==
    \A r \in Runs : \A i \in DOMAIN outcome[r] :
        ( /\ kind[r] = "propensity"
          /\ rows[r][i].parsed
          /\ ~CsvPropertyPropensityScore_validate(rows[r][i]) )
            => /\ outcome[r][i] = "skipped-validation-failure"
               /\ RecordedIn(r, i, "validation_failures")

\* what does hold: the missing-score check comes first; a parsed row with a
\* score that violates the field checks ends in skipped-validation-failure,
\* and every parsed row without a score ends in skipped-missing-score
C24_ScoreCheckPrecedesValidation ==
    \A r \in Runs : \A i \in DOMAIN outcome[r] :
        (kind[r] = "propensity" /\ rows[r][i].parsed) =>
            /\ ~IsSome(rows[r][i].propensity_score)
                   => /\ outcome[r][i] = "skipped-missing-score"
                      /\ RecordedIn(r, i, "missing_scores")
            /\ (IsSome(rows[r][i].propensity_score) /\ ~CsvPropertyPropensityScore_validate(rows[r][i]))
                   => /\ outcome[r][i] = "skipped-validation-failure"
                      /\ RecordedIn(r, i, "validation_failures")

\* the failures of the store that end a run: begin().expect and commit().expect
FatalResults == {"begin failed", "commit failed"}

\* C25: when a fatal error aborts a run partway through its rows, every
\* record that earlier rows saved stays in the store unchanged (nothing is
\* rolled back across rows), and the run processes no row after the failing
\* one.
C25_AbortKeepsSavedRows ==
    [][\A r \in Runs :
           /\ \A db \in FatalResults :
                  (property_do_save_on(r, db) \/ propensity_do_save_on(r, db)) =>
                      /\ pc'[r] = "panicked"
                      /\ properties' = properties
                      /\ propensities' = propensities
           /\ pc[r] = "panicked" =>
                  /\ pc'[r] = "panicked"
                  /\ rows'[r] = rows[r]
                  /\ outcome'[r] = outcome[r]
                  /\ nr_saved_records'[r] = nr_saved_records[r]
           /\ \A k \in Kinds :
                  /\ Len(Table(k)') >= Len(Table(k))
                  /\ \A i \in DOMAIN Table(k) : Table(k)'[i] = Table(k)[i]]_vars

\* a run that saved its first row has been aborted in the save of its
\* second, and the first row's record is in the store
C25_Witness ==
    \E r \in Runs :
        /\ pc[r] = "panicked"
        /\ Len(rows[r]) = 2
        /\ outcome[r] = <<"saved">>
        /\ RecordsFor(Table(kind[r]), Canonical(rows[r][1])) # {}

\* the rows of run r that have come to their end, saved or skipped
Consumed(r) == Len(outcome[r])

\* C26: row accounting: at every point of a run and at its end
\* nr_saved_records + length(skipped_records) is the number of rows consumed
\* so far (all rows read, but for the one the run is working on or was
\* aborted in); every index in skipped_records is a 1-based row index, the
\* indices are in strictly increasing order (so none appears twice), and
\* the number of issues of the quality report is at most
\* length(skipped_records).
C26_RowAccounting ==
    \A r \in Runs :
        /\ nr_saved_records[r] + Len(skipped_records[r]) = Consumed(r)
        /\ pc[r] \in {"idle", "loop", "done"} => Consumed(r) = Len(rows[r])
        /\ pc[r] \in {"find", "assess", "save"} => Consumed(r) = Len(rows[r]) - 1
        /\ pc[r] = "panicked" => Consumed(r) \in {Len(rows[r]), Len(rows[r]) - 1}
        /\ \A k \in DOMAIN skipped_records[r] : skipped_records[r][k] \in 1..Len(rows[r])
        /\ \A j, k \in DOMAIN skipped_records[r] :
               j < k => skipped_records[r][j] < skipped_records[r][k]
        /\ nr_issues(quality[r]) <= Len(skipped_records[r])

\* a finished run of two rows: the second row skipped as a duplicate of the
\* first, which is no issue of the report
C26_Witness ==
    \E r \in Runs :
        /\ pc[r] = "done"
        /\ outcome[r] = <<"saved", "skipped-duplicate">>
        /\ nr_saved_records[r] = 1
        /\ skipped_records[r] = <<2>>
        /\ nr_issues(quality[r]) = 0

\* the fields of a record read back, without the id the store assigned
WithoutId(found) == [f \in DOMAIN found \ {"id"} |-> found[f]]

\* every result of the lookup of `e` on the table after its save, the failed
\* query aside, is the record `e` itself
ReadBack(results, e) ==
    \A result \in results :
        result.cause # "query" => result.tag = "some" /\ WithoutId(result.value) = WithoutId(e)

\* C27: save/find round trip: after the save of a translated entity e has
\* succeeded, the lookup by e's APN returns a present record (never absence,
\* never a re-parsing error) whose fields other than the id equal e's.
C27_SaveFindRoundTrip ==
    [][\A r \in Runs :
           /\ property_do_save_on(r, "saved") =>
                  ReadBack(PropertyRecordRepository_find(record[r].apn, properties'), record[r])
           /\ propensity_do_save_on(r, "saved") =>
                  ReadBack(PropertyPropensityScoreRepository_find_for_apn(record[r].apn, propensities'),
                           record[r])]_vars

\* what does hold: the round trip of every entity whose canonical APN is 14
\* bytes long
C27_SaveFindRoundTripOf14ByteApns ==
    [][\A r \in Runs :
           ByteLen(record[r].apn) = APN_LENGTH =>
               /\ property_do_save_on(r, "saved") =>
                      ReadBack(PropertyRecordRepository_find(record[r].apn, properties'), record[r])
               /\ propensity_do_save_on(r, "saved") =>
                      ReadBack(PropertyPropensityScoreRepository_find_for_apn(record[r].apn, propensities'),
                               record[r])]_vars

\* and: the stored display name of every LandUseType classifies back to it
C27_DisplayNamesClassifyBack ==
    \A i \in DOMAIN LandUseTypes :
        LET t == LandUseTypes[i]
            back == LandUseType_try_from(LandUseType_fmt(t)) IN back.ok /\ back.value = t

\* and: a direction is rebuilt from its prefix and its suffix
C27_DirectionIsRebuilt ==
    Answered("Address::new_in_usa") =>
        LET d == call.result.address.address_line.street_direction IN
        StreetDirection_new(StreetDirection_prefix(d), StreetDirection_suffix(d)) = d

\* a result of the cross-reference lookup that is an error
LookupError(result) == result.tag = "err"

\* C28: in the propensity pipeline, when the cross-reference lookup of the
\* properties table fails with an error, the row is treated exactly like one
\* with no matching property: the record is appended to
\* not_in_core_properties and the run goes on to the save of the row; the
\* row is not skipped and the run is not aborted.
C28_CrossReferenceErrorIsNotMatched ==
    [][\A r \in Runs :
           \A result \in PropertyRecordRepository_find(record[r].apn, properties) :
               (LookupError(result) /\ do_assess_for_property_on(r, result)) =>
                   /\ quality'[r] = Push(quality[r], "not_in_core_properties", record[r])
                   /\ pc'[r] = "save"
                   /\ record'[r] = record[r]
                   /\ skipped_records'[r] = skipped_records[r]
                   /\ nr_saved_records'[r] = nr_saved_records[r]
                   /\ outcome'[r] = outcome[r]
                   /\ properties' = properties
                   /\ propensities' = propensities]_vars

\* a finished propensity run whose only row was saved and is reported as not
\* in the core properties although its property is stored: the
\* cross-reference lookup had failed
C28_Witness ==
    \E r \in Runs :
        /\ kind[r] = "propensity"
        /\ pc[r] = "done"
        /\ outcome[r] = <<"saved">>
        /\ Len(quality[r].not_in_core_properties) = 1
        /\ \E i \in DOMAIN properties :
               properties[i].apn = quality[r].not_in_core_properties[1].apn
        /\ \E i \in DOMAIN propensities :
               propensities[i].apn = quality[r].not_in_core_properties[1].apn

\* the words of the summary line that reports the not-in-core-properties list
NotInCoreWords == "not in core properties (but still loaded)"

\* the rendered summary has a line with the count of the list
ShowsNotInCore(q) ==
    \E k \in DOMAIN QualityMeasure_fmt(q) :
        QualityMeasure_fmt(q)[k] = [count |-> Len(q.not_in_core_properties), words |-> NotInCoreWords]

\* C29: whenever the not-in-core-properties list is non-empty at the end of
\* a propensity run, the rendered quality summary includes its count, also
\* when the deserialization, validation, save-failure and missing-score
\* counts are all zero.
C29_SummaryShowsNotInCore ==
    \A r \in Runs :
        ( /\ kind[r] = "propensity"
          /\ pc[r] = "done"
          /\ quality[r].not_in_core_properties # <<>> )
            => ShowsNotInCore(quality[r])

\* what does hold: the count is in the summary when the run had an issue of
\* one of the other four categories
C29_SummaryShowsNotInCoreAmongIssues ==
    \A r \in Runs :
        ( /\ kind[r] = "propensity"
          /\ pc[r] = "done"
          /\ quality[r].not_in_core_properties # <<>>
          /\ 0 < nr_issues(quality[r]) )
            => ShowsNotInCore(quality[r])

\* the case of C29_SummaryShowsNotInCoreAmongIssues happens
C29_WitnessAmongIssues ==
    \E r \in Runs :
        /\ kind[r] = "propensity"
        /\ pc[r] = "done"
        /\ quality[r].not_in_core_properties # <<>>
        /\ 0 < nr_issues(quality[r])

\* a usize that is the number n
IsNumber(v, n) == v = usize(n)

\* C30: count_nr_records returns the number of lines of the file minus one
\* without unsigned underflow for every readable file, a file of zero lines
\* included: it returns normally, with a count that is not above the number
\* of lines.
C30_CountWithoutUnderflow ==
    (Answered("count_nr_records") /\ call.arg.readable) =>
        /\ call.result.tag = "ok"
        /\ \E n \in 0..call.arg.lines : IsNumber(call.result.value, n)
        /\ call.arg.lines >= 1 => IsNumber(call.result.value, call.arg.lines - 1)

\* what does hold: the count of a readable file that has a line
C30_CountOfAFileWithALine ==
    (Answered("count_nr_records") /\ call.arg.readable /\ call.arg.lines >= 1) =>
        /\ call.result.tag = "ok"
        /\ IsNumber(call.result.value, call.arg.lines - 1)

\* the case of C30_CountOfAFileWithALine happens: a header and two records
C30_WitnessTwoRecords ==
    /\ Answered("count_nr_records")
    /\ call.arg = [lines |-> 3, readable |-> TRUE]
    /\ IsNumber(call.result.value, 2)

\* the two outcomes of a file of zero lines: the count is 2^64 - 1 ...
C30_WitnessWrapped ==
    /\ Answered("count_nr_records")
    /\ call.arg = [lines |-> 0, readable |-> TRUE]
    /\ call.result = [tag |-> "ok", value |-> <<65535, 65535, 65535, 65535>>]

\* ... or the run panics
C30_WitnessPanic ==
    /\ Answered("count_nr_records")
    /\ call.arg = [lines |-> 0, readable |-> TRUE]
    /\ call.result.tag = "panic"
=============================================================================
